---- MODULE Spec2Model ----
(***************************************************************************)
(* SARIMA model search and comparison, src/src/statistical_models.py:      *)
(* fit_sarima_model, compare_models and                                    *)
(* compare_sales_volume_sarima_models, as a state machine.                 *)
(*                                                                         *)
(* The numerical library (statsmodels SARIMAX fit, forecast) is the        *)
(* environment: the outcome of fitting one (order, seasonal_order) to the  *)
(* series is chosen the first time it is asked for and remembered          *)
(* (fitMemo, fcMemo), so that within one behaviour the library is a        *)
(* function of its inputs.                                                 *)
(***************************************************************************)
EXTENDS Integers, Sequences, FiniteSets, TLC

VARIABLES
    pc,             \* position of the running function
    fn,             \* function being run
    calls,          \* number of calls made so far in this behaviour
    ts_len,         \* len(ts) of the series argument
    model_configs,  \* the candidate list argument
    i,              \* enumerate() position: candidates consumed so far
    cur,            \* locals of the current loop iteration
    results,        \* local list `results`
    best_result,    \* local `best_result`
    ret,            \* value returned by the call
    prev,           \* values returned by the earlier calls of this behaviour
    fitLog,         \* SARIMAX(...).fit() invocations of the current call
    fitMemo,        \* library: fit outcome per (order, seasonal_order)
    fcMemo          \* library: forecast outcome per (order, seasonal_order)

vars == <<pc, fn, calls, ts_len, model_configs, i, cur, results, best_result,
          ret, prev, fitLog, fitMemo, fcMemo>>

----------------------------------------------------------------------------
(* Bounds of the model *)

MaxConfigs == 2
MaxCalls == 2

(* Python values *)

None == <<>>
NoResult == [none |-> TRUE]
Inf == 1000000
WeeklyThreshold == 100

S52 == <<0, 1, 1, 52>>
S12 == <<0, 1, 1, 12>>

Orders == {<<1, 1, 1>>, <<0, 1, 1>>}
ConfigSeasonals == {S52, None}
DirectSeasonals == {S52, S12, None}
Labels == {"Basic SARIMA"}
TsLens == {5, 6, 100, 101}

\* A candidate is a Python tuple (order, seasonal_order) or
\* (order, seasonal_order, label).
Candidates ==
    {<<o, s>> : o \in Orders, s \in ConfigSeasonals}
        \cup {<<o, s, l>> : o \in Orders, s \in ConfigSeasonals, l \in Labels}

RECURSIVE SeqsUpTo(_, _)
SeqsUpTo(S, n) ==
    IF n = 0 THEN {<<>>}
    ELSE LET shorter == SeqsUpTo(S, n - 1)
         IN shorter \cup {Append(q, x) : q \in {r \in shorter : Len(r) = n - 1}, x \in S}

ConfigLists == SeqsUpTo(Candidates, MaxConfigs)

(* The library's answers *)

Unknown == [unknown |-> TRUE]
FitError == [raised |-> "FitError"]
ModelResults == {[aic |-> 1, bic |-> 4], [aic |-> 2, bic |-> 3]}
FitOutcomes == ModelResults \cup {FitError}
FitKeys == Orders \X {S52, S12}

Min(a, b) == IF a < b THEN a ELSE b

----------------------------------------------------------------------------
(* fit_sarima_model *)

\* Variant: the weekly test written with >= instead of >.
SeasonalOrderFor_AtLeast(n, seasonal_order) ==
    IF seasonal_order = None
    THEN IF n >= WeeklyThreshold THEN S52 ELSE S12
    ELSE seasonal_order

\* The seasonal order handed to SARIMAX.
SeasonalOrderFor(n, seasonal_order) ==
    IF seasonal_order = None
    THEN IF n > WeeklyThreshold THEN S52 ELSE S12
    ELSE seasonal_order

\* fit_sarima_model(ts, order, seasonal_order) with len(ts) = n ends with
\* `outcome`: a fitted result, or the exception raised by SARIMAX / fit.
FitSarimaModel(n, order, seasonal_order, outcome) ==
    LET passed == SeasonalOrderFor(n, seasonal_order)
        key == <<order, passed>>
    IN /\ outcome \in (IF fitMemo[key] = Unknown THEN FitOutcomes ELSE {fitMemo[key]})
       /\ fitMemo' = [fitMemo EXCEPT ![key] = outcome]
       /\ fitLog' = Append(fitLog, [n |-> n, order |-> order,
                                    seasonal_order |-> seasonal_order,
                                    passed |-> passed, outcome |-> outcome])

Init ==
    /\ pc = "idle"
    /\ fn = "none"
    /\ calls = 0
    /\ ts_len = 0
    /\ model_configs = <<>>
    /\ i = 0
    /\ cur = NoResult
    /\ results = <<>>
    /\ best_result = NoResult
    /\ ret = NoResult
    /\ prev = <<>>
    /\ fitLog = <<>>
    /\ fitMemo = [k \in FitKeys |-> Unknown]
    /\ fcMemo = [k \in FitKeys |-> "unknown"]

\* A script calls fit_sarima_model directly.
FitSarimaModelCall ==
    /\ pc = "idle"
    /\ \E n \in TsLens, order \in Orders, so \in DirectSeasonals, outcome \in FitOutcomes :
        /\ FitSarimaModel(n, order, so, outcome)
        /\ ts_len' = n
        /\ IF outcome = FitError
           THEN pc' = "raised" /\ ret' = NoResult
           ELSE pc' = "returned" /\ ret' = outcome
    /\ fn' = "fit_sarima_model"
    /\ calls' = MaxCalls
    /\ UNCHANGED <<model_configs, i, cur, results, best_result, prev, fcMemo>>

----------------------------------------------------------------------------
(* Helpers shared by the two comparison functions *)

\* Variant: the list is not filtered.
Successful_All(rs) == rs

\* [r for r in results if r['success']]
Successful(rs) == SelectSeq(rs, LAMBDA r : r.success)

\* Python's min(seq, key=lambda x: x['aic']) on a non-empty list: the first
\* element whose key no later element is strictly below.
RECURSIVE PyMinByAicFrom(_, _, _)
PyMinByAicFrom(seq, k, best) ==
    IF k > Len(seq) THEN best
    ELSE PyMinByAicFrom(seq, k + 1, IF seq[k].aic < best.aic THEN seq[k] ELSE best)

\* Variant: a minimum that keeps the last of several equal keys.
RECURSIVE PyMinByAicLastFrom(_, _, _)
PyMinByAicLastFrom(seq, k, best) ==
    IF k > Len(seq) THEN best
    ELSE PyMinByAicLastFrom(seq, k + 1, IF seq[k].aic <= best.aic THEN seq[k] ELSE best)

PyMinByAic_Last(seq) == PyMinByAicLastFrom(seq, 2, seq[1])

PyMinByAic(seq) == PyMinByAicFrom(seq, 2, seq[1])

\* Variant: min() called without the emptiness test; min([]) raises.
SelectBest_Unguarded(successful_results) ==
    IF successful_results # <<>> THEN PyMinByAic(successful_results)
    ELSE [raised |-> "ValueError"]

\* if successful_results: best_result = min(...) else: best_result = None
SelectBest(successful_results) ==
    IF successful_results # <<>> THEN PyMinByAic(successful_results) ELSE NoResult

\* Variant: an except clause that names one exception type only.
Caught_OnlyValueError(exc) == exc = "ValueError"

\* `except Exception as e` catches whatever the try body raised.
Caught(exc) == exc \in {"FitError", "ForecastError"}

\* Variant: the list outlives the call (a module-level or default-argument
\* list).
ResultsAtEntry_Kept(old) == old

\* `results = []` at function entry.
ResultsAtEntry(old) == <<>>

\* Variant: the entry is indexed instead of unpacked, so extra items pass.
Unpacks_AtLeast(cfg, arity) == Len(cfg) >= arity

\* Tuple unpacking in the for statement: the entry must have `arity` items.
Unpacks(cfg, arity) == Len(cfg) = arity

\* Entry into comparison function f with a series of n points and the
\* candidate list cfgs.
EnterComparison(f, n, cfgs) ==
    /\ fn' = f
    /\ ts_len' = n
    /\ model_configs' = cfgs
    /\ calls' = calls + 1
    /\ prev' = IF pc = "returned" THEN Append(prev, ret) ELSE prev
    /\ results' = ResultsAtEntry(results)
    /\ i' = 0
    /\ cur' = NoResult
    /\ best_result' = NoResult
    /\ ret' = NoResult
    /\ fitLog' = <<>>
    /\ pc' = "loop"
    /\ UNCHANGED <<fitMemo, fcMemo>>

----------------------------------------------------------------------------
(* compare_models *)

\* The first call of a behaviour takes any arguments; a later call repeats
\* the arguments of the call that just returned.
CompareModelsCall ==
    /\ calls < MaxCalls
    /\ IF pc = "idle"
       THEN \E n \in TsLens, cfgs \in ConfigLists :
                EnterComparison("compare_models", n, cfgs)
       ELSE /\ pc = "returned" /\ fn = "compare_models"
            /\ EnterComparison("compare_models", ts_len, model_configs)

\* for i, (order, seasonal_order) in enumerate(model_configs, 1):
\* the next entry is taken and unpacked, or the loop ends.
CompareModelsNext ==
    /\ pc = "loop" /\ fn = "compare_models"
    /\ IF i = Len(model_configs)
       THEN pc' = "select" /\ UNCHANGED <<i, cur>>
       ELSE LET cfg == model_configs[i + 1]
            IN IF Unpacks(cfg, 2)
               THEN /\ pc' = "fit"
                    /\ i' = i + 1
                    /\ cur' = [order |-> cfg[1], seasonal_order |-> cfg[2]]
               ELSE /\ pc' = "raised"
                    /\ cur' = [exc |-> "ValueError"]
                    /\ UNCHANGED i
    /\ UNCHANGED <<fn, calls, ts_len, model_configs, results, best_result, ret,
                   prev, fitLog, fitMemo, fcMemo>>

\* try: model_result = fit_sarima_model(ts, order=order, seasonal_order=seasonal_order)
CompareModelsFit ==
    /\ pc = "fit" /\ fn = "compare_models"
    /\ \E outcome \in FitOutcomes :
        /\ FitSarimaModel(ts_len, cur.order, cur.seasonal_order, outcome)
        /\ cur' = [order |-> cur.order, seasonal_order |-> cur.seasonal_order,
                   outcome |-> outcome]
    /\ pc' = "record"
    /\ UNCHANGED <<fn, calls, ts_len, model_configs, i, results, best_result, ret,
                   prev, fcMemo>>

\* Variant: each outcome is put at the front of the list.
CompareModelsRecord_Prepend ==
    /\ pc = "record" /\ fn = "compare_models"
    /\ results' = <<IF cur.outcome # FitError
                   THEN [order |-> cur.order, seasonal_order |-> cur.seasonal_order,
                         model |-> cur.outcome, aic |-> cur.outcome.aic,
                         bic |-> cur.outcome.bic, success |-> TRUE]
                   ELSE [order |-> cur.order, seasonal_order |-> cur.seasonal_order,
                         model |-> NoResult, aic |-> Inf, bic |-> Inf,
                         success |-> FALSE, error |-> "FitError"]>> \o results
    /\ pc' = "loop"
    /\ UNCHANGED <<fn, calls, ts_len, model_configs, i, cur, best_result, ret,
                   prev, fitLog, fitMemo, fcMemo>>

\* Variant: a failed fit is tried a second time before it is recorded.
CompareModelsRecord_Retry ==
    /\ pc = "record" /\ fn = "compare_models"
    /\ IF cur.outcome # FitError
       THEN /\ results' = Append(results,
                    [order |-> cur.order, seasonal_order |-> cur.seasonal_order,
                     model |-> cur.outcome, aic |-> cur.outcome.aic,
                     bic |-> cur.outcome.bic, success |-> TRUE])
            /\ pc' = "loop"
       ELSE IF Len(fitLog) = i
       THEN /\ pc' = "fit"
            /\ UNCHANGED results
       ELSE /\ results' = Append(results,
                    [order |-> cur.order, seasonal_order |-> cur.seasonal_order,
                     model |-> NoResult, aic |-> Inf, bic |-> Inf,
                     success |-> FALSE, error |-> "FitError"])
            /\ pc' = "loop"
    /\ UNCHANGED <<fn, calls, ts_len, model_configs, i, cur, best_result, ret,
                   prev, fitLog, fitMemo, fcMemo>>

\* results.append({... 'success': True}) after the fit, or the except
\* clause's results.append({... 'success': False, 'error': str(e)}).
CompareModelsRecord ==
    /\ pc = "record" /\ fn = "compare_models"
    /\ IF cur.outcome # FitError
       THEN /\ results' = Append(results,
                    [order |-> cur.order, seasonal_order |-> cur.seasonal_order,
                     model |-> cur.outcome, aic |-> cur.outcome.aic,
                     bic |-> cur.outcome.bic, success |-> TRUE])
            /\ pc' = "loop"
       ELSE IF Caught("FitError")
       THEN /\ results' = Append(results,
                    [order |-> cur.order, seasonal_order |-> cur.seasonal_order,
                     model |-> NoResult, aic |-> Inf, bic |-> Inf,
                     success |-> FALSE, error |-> "FitError"])
            /\ pc' = "loop"
       ELSE /\ pc' = "raised"
            /\ UNCHANGED results
    /\ UNCHANGED <<fn, calls, ts_len, model_configs, i, cur, best_result, ret,
                   prev, fitLog, fitMemo, fcMemo>>

\* return {'results': results, 'best_model': best_result}
CompareModelsReturnValue(rs, best) == [results |-> rs, best_model |-> best]

\* successful_results = [...]; best_result = min(...) or None; return
CompareModelsSelect ==
    /\ pc = "select" /\ fn = "compare_models"
    /\ LET best == SelectBest(Successful(results))
       IN /\ best_result' = best
          /\ ret' = CompareModelsReturnValue(results, best)
    /\ pc' = "returned"
    /\ UNCHANGED <<fn, calls, ts_len, model_configs, i, cur, results, prev,
                   fitLog, fitMemo, fcMemo>>

----------------------------------------------------------------------------
(* compare_sales_volume_sarima_models *)

\* forecast_steps = min(26, len(ts) // 6)
ForecastSteps(n) == Min(26, n \div 6)

\* forecast_2025(model_result, steps=forecast_steps, ts_index=ts.index) for
\* the model fitted under `key` ends with `fc`: "ok", or "raise" when the
\* library or the date arithmetic raises.  The library rejects an empty
\* prediction range (steps = 0).
Forecast2025(key, steps, fc) ==
    /\ fc \in (IF steps < 1 THEN {"raise"}
               ELSE IF fcMemo[key] = "unknown" THEN {"ok", "raise"}
               ELSE {fcMemo[key]})
    /\ fcMemo' = [fcMemo EXCEPT ![key] = fc]

\* The first call of a behaviour takes any arguments; a later call repeats
\* the arguments of the call that just returned.
SalesVolumeCall ==
    /\ calls < MaxCalls
    /\ IF pc = "idle"
       THEN \E n \in TsLens, cfgs \in ConfigLists :
                EnterComparison("compare_sales_volume_sarima_models", n, cfgs)
       ELSE /\ pc = "returned" /\ fn = "compare_sales_volume_sarima_models"
            /\ EnterComparison("compare_sales_volume_sarima_models", ts_len, model_configs)

\* for i, (order, seasonal_order, label) in enumerate(model_configs, 1):
SalesVolumeNext ==
    /\ pc = "loop" /\ fn = "compare_sales_volume_sarima_models"
    /\ IF i = Len(model_configs)
       THEN pc' = "select" /\ UNCHANGED <<i, cur>>
       ELSE LET cfg == model_configs[i + 1]
            IN IF Unpacks(cfg, 3)
               THEN /\ pc' = "fit"
                    /\ i' = i + 1
                    /\ cur' = [order |-> cfg[1], seasonal_order |-> cfg[2],
                               label |-> cfg[3]]
               ELSE /\ pc' = "raised"
                    /\ cur' = [exc |-> "ValueError"]
                    /\ UNCHANGED i
    /\ UNCHANGED <<fn, calls, ts_len, model_configs, results, best_result, ret,
                   prev, fitLog, fitMemo, fcMemo>>

\* try: model_result = fit_sarima_model(ts, order=order, seasonal_order=seasonal_order)
SalesVolumeFit ==
    /\ pc = "fit" /\ fn = "compare_sales_volume_sarima_models"
    /\ \E outcome \in FitOutcomes :
        /\ FitSarimaModel(ts_len, cur.order, cur.seasonal_order, outcome)
        /\ cur' = [order |-> cur.order, seasonal_order |-> cur.seasonal_order,
                   label |-> cur.label, outcome |-> outcome, exc |-> "none",
                   forecast |-> NoResult]
        /\ pc' = IF outcome = FitError THEN "record" ELSE "forecast"
    /\ UNCHANGED <<fn, calls, ts_len, model_configs, i, results, best_result, ret,
                   prev, fcMemo>>

\* still inside the try: forecast, forecast_ci = forecast_2025(...)
SalesVolumeForecast ==
    /\ pc = "forecast" /\ fn = "compare_sales_volume_sarima_models"
    /\ LET forecast_steps == ForecastSteps(ts_len)
           key == <<cur.order, SeasonalOrderFor(ts_len, cur.seasonal_order)>>
       IN \E fc \in {"ok", "raise"} :
            /\ Forecast2025(key, forecast_steps, fc)
            /\ cur' = IF fc = "ok"
                      THEN [cur EXCEPT !.forecast = [len |-> forecast_steps]]
                      ELSE [cur EXCEPT !.exc = "ForecastError"]
    /\ pc' = "record"
    /\ UNCHANGED <<fn, calls, ts_len, model_configs, i, results, best_result, ret,
                   prev, fitLog, fitMemo>>

\* The exception the try body of this iteration ended with, "none" if it
\* ran to its end.
TryBodyException(c) ==
    IF c.outcome = FitError THEN "FitError" ELSE c.exc

\* results.append({... 'success': True}) at the end of the try body, or the
\* except clause's results.append({... 'success': False, 'error': str(e)}).
SalesVolumeRecord ==
    /\ pc = "record" /\ fn = "compare_sales_volume_sarima_models"
    /\ LET e == TryBodyException(cur)
       IN IF e = "none"
          THEN /\ results' = Append(results,
                       [label |-> cur.label, order |-> cur.order,
                        seasonal_order |-> cur.seasonal_order,
                        model |-> cur.outcome, forecast |-> cur.forecast,
                        forecast_ci |-> cur.forecast, aic |-> cur.outcome.aic,
                        bic |-> cur.outcome.bic, success |-> TRUE])
               /\ pc' = "loop"
          ELSE IF Caught(e)
          THEN /\ results' = Append(results,
                       [label |-> cur.label, order |-> cur.order,
                        seasonal_order |-> cur.seasonal_order,
                        model |-> NoResult, forecast |-> NoResult,
                        forecast_ci |-> NoResult, aic |-> Inf, bic |-> Inf,
                        success |-> FALSE, error |-> e])
               /\ pc' = "loop"
          ELSE /\ pc' = "raised"
               /\ UNCHANGED results
    /\ UNCHANGED <<fn, calls, ts_len, model_configs, i, cur, best_result, ret,
                   prev, fitLog, fitMemo, fcMemo>>

\* successful_results = [...]; best_result = min(...) or None
SalesVolumeSelect ==
    /\ pc = "select" /\ fn = "compare_sales_volume_sarima_models"
    /\ best_result' = SelectBest(Successful(results))
    /\ pc' = "plot"
    /\ UNCHANGED <<fn, calls, ts_len, model_configs, i, cur, results, ret, prev,
                   fitLog, fitMemo, fcMemo>>

\* Variant: the count taken over all outcomes.
SalesVolumeReturnValue_CountAll(rs, best) ==
    [results |-> rs, best_model |-> best, successful_count |-> Len(rs)]

\* return {'results': results, 'best_model': best_result,
\*         'successful_count': len(successful_results)}
SalesVolumeReturnValue(rs, best) ==
    [results |-> rs, best_model |-> best, successful_count |-> Len(Successful(rs))]

\* _plot_sarima_model_comparison and _print_model_comparison_table read
\* `results` and write a chart file and text; then the function returns.
SalesVolumePlotReturn ==
    /\ pc = "plot" /\ fn = "compare_sales_volume_sarima_models"
    /\ ret' = SalesVolumeReturnValue(results, best_result)
    /\ pc' = "returned"
    /\ UNCHANGED <<fn, calls, ts_len, model_configs, i, cur, results, best_result,
                   prev, fitLog, fitMemo, fcMemo>>

----------------------------------------------------------------------------
(* Calendar: a date is its day number, day 1 being Monday 2024-01-01.      *)
(* Months are numbered from 1 = January 2024 on, through December 2026.    *)

MonthLens ==
    <<31, 29, 31, 30, 31, 30, 31, 31, 30, 31, 30, 31,
      31, 28, 31, 30, 31, 30, 31, 31, 30, 31, 30, 31,
      31, 28, 31, 30, 31, 30, 31, 31, 30, 31, 30, 31>>

RECURSIVE MonthEnd(_)
\* Day number of the last day of month m (0 for m = 0).
MonthEnd(m) == IF m = 0 THEN 0 ELSE MonthEnd(m - 1) + MonthLens[m]

MonthOf(d) == CHOOSE m \in 1..Len(MonthLens) : MonthEnd(m - 1) < d /\ d <= MonthEnd(m)

DayOfMonth(d) == d - MonthEnd(MonthOf(d) - 1)

IsSunday(d) == d % 7 = 0

\* date + pd.DateOffset(weeks=1)
AddWeek(d) == d + 7

\* date + pd.DateOffset(months=1): same day of the next month, cut to that
\* month's length.
AddMonth(d) ==
    LET m == MonthOf(d) + 1
    IN MonthEnd(m - 1) + Min(DayOfMonth(d), MonthLens[m])

\* Variant: bins closed on the left, so a Sunday falls into the next week.
WeekLabel_ClosedLeft(d) == d + (7 - (d % 7))

\* Roll a date forward onto the offset of a pandas frequency: 'W' is the
\* week ending Sunday, 'ME' the month end, 'QE' the quarter end.
WeekLabel(d) == d + ((7 - (d % 7)) % 7)
MonthLabel(d) == MonthEnd(MonthOf(d))
QuarterLabel(d) == MonthEnd(3 * (((MonthOf(d) - 1) \div 3) + 1))

RollForward(d, freq) ==
    CASE freq = "W" -> WeekLabel(d)
      [] freq = "ME" -> MonthLabel(d)
      [] freq = "QE" -> QuarterLabel(d)

\* The offset date that follows an on-offset date.
NextOnOffset(d, freq) == RollForward(d + 1, freq)

RECURSIVE DateRangeFrom(_, _, _)
DateRangeFrom(first, periods, freq) ==
    IF periods <= 0 THEN <<>>
    ELSE <<first>> \o DateRangeFrom(NextOnOffset(first, freq), periods - 1, freq)

\* pd.date_range(start=start, periods=periods, freq=freq)
DateRange(start, periods, freq) == DateRangeFrom(RollForward(start, freq), periods, freq)

----------------------------------------------------------------------------
(* forecast_2025 and forecast_with_confidence *)

\* `steps is None`
StepsNone == -1
StepsArgs == {StepsNone, 0, 2, 12}

\* The index of the series the model was fitted on: its frequency (weekly
\* series are labelled by Sundays, monthly ones by month ends), its length
\* and its last timestamp; NoResult when ts_index is not given.
SeriesIndexes ==
    {[freq |-> "W", n |-> n, last |-> d] : n \in TsLens, d \in {357, 364}}
        \cup {[freq |-> "M", n |-> n, last |-> d] : n \in TsLens, d \in {31, 60, 366}}

IndexArgs == SeriesIndexes \cup {NoResult}

ConfidenceLevels == {95, 90}

\* The index the library gives its forecasts: opaque, the same for the point
\* forecast and the interval of one model, and no date of the calendar.
LibIndex(steps) == [k \in 1..steps |-> 0 - k]

\* if steps is None: 52 if ts_index is not None and len(ts_index) > 100 else 12
DefaultSteps(steps, ts_index) ==
    IF steps = StepsNone
    THEN IF ts_index # NoResult /\ ts_index.n > WeeklyThreshold THEN 52 ELSE 12
    ELSE steps

\* forecast_dates: weekly dates when len(ts_index) > 100, month ends otherwise
ForecastDates(ts_index, steps) ==
    IF ts_index.n > WeeklyThreshold
    THEN DateRange(AddWeek(ts_index.last), steps, "W")
    ELSE DateRange(AddMonth(ts_index.last), steps, "ME")

\* forecast.index = forecast_dates, when ts_index is given
ForecastIndex(ts_index, steps) ==
    IF ts_index # NoResult THEN ForecastDates(ts_index, steps) ELSE LibIndex(steps)

\* Variant: the interval keeps the library's index.
ForecastCiIndex_NotAssigned(ts_index, steps) == LibIndex(steps)

\* forecast_ci.index = forecast_dates, when ts_index is given
ForecastCiIndex(ts_index, steps) ==
    IF ts_index # NoResult THEN ForecastDates(ts_index, steps) ELSE LibIndex(steps)

\* forecast_2025(model_result, steps, ts_index) on a fitted model; `lib` is
\* whether the library's forecast calls raise.  The library rejects an empty
\* prediction range.
Forecast2025Call ==
    /\ pc = "idle"
    /\ \E ts_index \in IndexArgs, steps_arg \in StepsArgs, lib \in {"ok", "raise"} :
        LET steps == DefaultSteps(steps_arg, ts_index)
        IN /\ cur' = [ts_index |-> ts_index, steps_arg |-> steps_arg, steps |-> steps]
           /\ ts_len' = IF ts_index # NoResult THEN ts_index.n ELSE 0
           /\ IF steps < 1 \/ lib = "raise"
              THEN pc' = "raised" /\ ret' = NoResult
              ELSE /\ pc' = "returned"
                   /\ ret' = [forecast |-> [index |-> ForecastIndex(ts_index, steps)],
                              forecast_ci |-> [index |-> ForecastCiIndex(ts_index, steps)]]
    /\ fn' = "forecast_2025"
    /\ UNCHANGED <<calls, model_configs, i, results, best_result, prev, fitLog,
                   fitMemo, fcMemo>>

\* forecast_with_confidence(model_result, steps, ts_index, confidence_level)
ForecastWithConfidenceCall ==
    /\ pc = "idle"
    /\ \E ts_index \in IndexArgs, steps_arg \in StepsArgs, lib \in {"ok", "raise"},
          confidence_level \in ConfidenceLevels :
        LET steps == DefaultSteps(steps_arg, ts_index)
        IN /\ cur' = [ts_index |-> ts_index, steps_arg |-> steps_arg, steps |-> steps]
           /\ ts_len' = IF ts_index # NoResult THEN ts_index.n ELSE 0
           /\ IF steps < 1 \/ lib = "raise"
              THEN pc' = "raised" /\ ret' = NoResult
              ELSE /\ pc' = "returned"
                   /\ ret' = [forecast |-> [index |-> ForecastIndex(ts_index, steps)],
                              confidence_intervals |->
                                  [index |-> ForecastCiIndex(ts_index, steps),
                                   alpha |-> 100 - confidence_level],
                              confidence_level |-> confidence_level]
    /\ fn' = "forecast_with_confidence"
    /\ UNCHANGED <<calls, model_configs, i, results, best_result, prev, fitLog,
                   fitMemo, fcMemo>>

----------------------------------------------------------------------------
(* Stationarity check and parameter analysis,                              *)
(* src/src/time_series_analysis.py.                                        *)
(*                                                                         *)
(* The unit-root test (statsmodels adfuller) is the environment.  It       *)
(* raises ValueError ("sample size is too short to use selected            *)
(* regression component") when nobs // 2 - 2 < 0, that is for fewer than   *)
(* MinAdfObs observations; otherwise it gives a p-value, or raises for a   *)
(* degenerate (constant) series.  p-values are in thousandths.             *)

MinAdfObs == 4
SignificanceLevel == 50
PValues == {49, 50, 51}
AnalysisLens == {3, 4, 5, 100, 101}

ValueError == [exc |-> "ValueError"]
IndexError == [exc |-> "IndexError"]
PlotError == [exc |-> "PlotError"]
IsException(v) == "exc" \in DOMAIN v

\* adfuller(ts) for a series of n points.
AdfOutcomes(n) ==
    IF n < MinAdfObs
    THEN {ValueError}
    ELSE {[p_value |-> p] : p \in PValues} \cup {ValueError}

\* Variant: a p-value of exactly 0.05 counts as non-stationary.
IsStationary_Strict(p) == p < SignificanceLevel

\* if result[1] <= 0.05: return True, else: return False
IsStationary(p) == p <= SignificanceLevel

\* check_stationarity(ts) given the outcome of adfuller(ts): the exception
\* is not caught, the p-value is compared with 0.05.
CheckStationarity(out) ==
    IF IsException(out) THEN out ELSE [value |-> IsStationary(out.p_value)]

\* len(ts.diff().dropna()) for a series without missing values.
DiffLen(n) == IF n = 0 THEN 0 ELSE n - 1

\* A script calls check_stationarity directly.
CheckStationarityCall ==
    /\ pc = "idle"
    /\ \E n \in AnalysisLens : \E out \in AdfOutcomes(n) :
        /\ ts_len' = n
        /\ cur' = [checks |-> <<[n |-> n, out |-> out]>>]
        /\ ret' = CheckStationarity(out)
        /\ pc' = IF IsException(out) THEN "raised" ELSE "returned"
    /\ fn' = "check_stationarity"
    /\ UNCHANGED <<calls, model_configs, i, results, best_result, prev, fitLog,
                   fitMemo, fcMemo>>

----------------------------------------------------------------------------
(* Building the London price and sales-volume series,                      *)
(* src/src/time_series_analysis.py and src/src/data_filters.py.            *)
(*                                                                         *)
(* A table is the sequence of its rows; a series is the sequence of its    *)
(* points [t |-> timestamp, v |-> value] in index order.  Values are exact *)
(* fractions <<numerator, denominator>> in lowest terms; NaN is the        *)
(* missing value.                                                          *)

MaxRows == 3

LONDON_POSTCODES ==
    {"EC", "WC", "E", "N", "NW", "SE", "SW", "W", "BR", "CR", "DA", "EN",
     "HA", "IG", "KT", "RM", "SM", "TW", "UB", "WD"}

NaN == <<>>

RECURSIVE GCD(_, _)
GCD(a, b) == IF b = 0 THEN a ELSE GCD(b, a % b)

Fraction(num, den) == <<num \div GCD(num, den), den \div GCD(num, den)>>
Number(n) == <<n, 1>>

\* Rows of the input table: London transactions on Wed 2024-01-03,
\* Sun 2024-01-07, Wed 2024-01-24 and Sat 2024-06-08, and a Manchester one.
Rows ==
    {[Date |-> 3, Price |-> 100, Postcode_Area |-> "E"],
     [Date |-> 7, Price |-> 300, Postcode_Area |-> "E"],
     [Date |-> 24, Price |-> 100, Postcode_Area |-> "SW"],
     [Date |-> 160, Price |-> 300, Postcode_Area |-> "E"],
     [Date |-> 24, Price |-> 100, Postcode_Area |-> "M"]}
Tables == SeqsUpTo(Rows, MaxRows)
FreqArgs == {"W", "M", "Q", "D"}

\* df[df['Postcode_Area'].isin(LONDON_POSTCODES)].copy()
filter_london_properties(df) ==
    SelectSeq(df, LAMBDA r : r.Postcode_Area \in LONDON_POSTCODES)

RECURSIVE SumPrices(_)
SumPrices(df) ==
    IF df = <<>> THEN 0 ELSE Head(df).Price + SumPrices(Tail(df))

\* Series.mean() of the Price column of the rows of one bucket.
Mean(df) == IF df = <<>> THEN NaN ELSE Fraction(SumPrices(df), Len(df))

IndexDates(df) == {df[k].Date : k \in 1..Len(df)}
FirstDate(df) == CHOOSE d \in IndexDates(df) : \A e \in IndexDates(df) : d <= e
LastDate(df) == CHOOSE d \in IndexDates(df) : \A e \in IndexDates(df) : e <= d

\* Bin labels of resample(alias): every period end from the one of the
\* earliest row to the one of the latest row; none for an empty table.
RECURSIVE BucketsFrom(_, _, _)
BucketsFrom(b, last, alias) ==
    IF b > last
    THEN <<>>
    ELSE <<b>> \o BucketsFrom(NextOnOffset(b, alias), last, alias)

Buckets(df, alias) ==
    IF df = <<>>
    THEN <<>>
    ELSE BucketsFrom(RollForward(FirstDate(df), alias),
                     RollForward(LastDate(df), alias), alias)

\* Rows of the bin labelled b (bins are closed and labelled on the right).
RowsIn(df, b, alias) == SelectSeq(df, LAMBDA r : RollForward(r.Date, alias) = b)


\* Variant: one point per row instead of one per bin.
ResampleMean_PerRow(df, alias) ==
    [k \in 1..Len(df) |->
        [t |-> RollForward(df[k].Date, alias), v |-> Number(df[k].Price)]]

\* london_df['Price'].resample(alias).mean(): the mean of every bin, NaN
\* for a bin without rows.
ResampleMean(df, alias) ==
    LET B == Buckets(df, alias)
    IN  [k \in 1..Len(B) |-> [t |-> B[k], v |-> Mean(RowsIn(df, B[k], alias))]]

\* london_df.resample(alias).size(): the number of rows of every bin.
ResampleSize(df, alias) ==
    LET B == Buckets(df, alias)
    IN  [k \in 1..Len(B) |->
            [t |-> B[k], v |-> Number(Len(RowsIn(df, B[k], alias)))]]

\* Variant: the missing values are kept.
Dropna_Keep(ts) == ts

\* ts.dropna()
Dropna(ts) == SelectSeq(ts, LAMBDA x : x.v # NaN)

\* ts.fillna(0)
Fillna0(ts) ==
    [k \in 1..Len(ts) |-> IF ts[k].v = NaN THEN [ts[k] EXCEPT !.v = Number(0)]
                                           ELSE ts[k]]

\* Frequencies prepare_london_time_series accepts, with the resample alias
\* of each (lines 78-88).
MeanAliases == [W |-> "W", M |-> "ME", Q |-> "QE"]

\* Variant: the sales-volume series also accepts 'Q'.
CountAliases_WithQuarterly == [M |-> "ME", W |-> "W", Q |-> "QE"]

\* Frequencies prepare_london_sales_volume_time_series accepts (lines
\* 349-356).
CountAliases == [M |-> "ME", W |-> "W"]

prepare_london_time_series(df, freq) ==
    LET london_df == filter_london_properties(df)
    IN  IF freq \in DOMAIN MeanAliases
        THEN [ts |-> Dropna(ResampleMean(london_df, MeanAliases[freq]))]
        ELSE ValueError

prepare_london_sales_volume_time_series(df, freq) ==
    LET london_df == filter_london_properties(df)
    IN  IF freq \in DOMAIN CountAliases
        THEN [ts |-> Fillna0(ResampleSize(london_df, CountAliases[freq]))]
        ELSE ValueError

\* Entry and exit of a series builder called with (df, freq).
BuildSeries(f, df, freq, result) ==
    /\ pc = "idle"
    /\ fn' = f
    /\ cur' = [df |-> df, freq |-> freq]
    /\ ret' = result
    /\ ts_len' = IF IsException(result) THEN 0 ELSE Len(result.ts)
    /\ pc' = IF IsException(result) THEN "raised" ELSE "returned"
    /\ UNCHANGED <<calls, model_configs, i, results, best_result, prev, fitLog,
                   fitMemo, fcMemo>>

PrepareLondonTimeSeriesCall ==
    /\ pc = "idle"
    /\ \E df \in Tables, freq \in FreqArgs :
        BuildSeries("prepare_london_time_series", df, freq,
                    prepare_london_time_series(df, freq))

PrepareLondonSalesVolumeTimeSeriesCall ==
    /\ pc = "idle"
    /\ \E df \in Tables, freq \in FreqArgs :
        BuildSeries("prepare_london_sales_volume_time_series", df, freq,
                    prepare_london_sales_volume_time_series(df, freq))

----------------------------------------------------------------------------
(* Parameter analyses: analyze_sarima_parameters,                          *)
(* analyze_sales_volume_sarima_parameters and                              *)
(* analyze_sales_volume_sarima_parameters_monthly.  The plots and the      *)
(* seasonal decomposition are the environment: a plot is drawn or raises,  *)
(* the decomposition is computed or fails (and is then None).              *)

Decomposition == [decomposition |-> TRUE]
PlotOutcomes == {"ok", "raise"}

\* Variant: the first difference is not consulted.
DParam_IgnoreDiff(is_stationary, is_diff_stationary) ==
    IF ~is_stationary THEN 1 ELSE 0

\* d_param = 1 if not is_stationary and is_diff_stationary else 0
DParam(is_stationary, is_diff_stationary) ==
    IF ~is_stationary /\ is_diff_stationary THEN 1 ELSE 0

\* Variant: the weekly test written with >= instead of >.
SeasonalPeriodFor_AtLeast(n) == IF n >= WeeklyThreshold THEN 52 ELSE 12

\* if len(ts) > 100: seasonal_period = 52, else: seasonal_period = 12
SeasonalPeriodFor(n) == IF n > WeeklyThreshold THEN 52 ELSE 12
FrequencyTypeFor(n) == IF n > WeeklyThreshold THEN "weekly" ELSE "monthly"

\* plot_seasonal_decomposition: seasonal_decompose needs two complete
\* cycles; every exception is caught and None returned.
Decompositions(n) ==
    IF n < 2 * SeasonalPeriodFor(n) THEN {NoResult} ELSE {Decomposition, NoResult}

PriceRecommendations(n, d, decomposition) ==
    [d |-> d, D |-> 1, s |-> SeasonalPeriodFor(n),
     frequency |-> FrequencyTypeFor(n),
     suggested_ranges |-> [p |-> <<0, 1, 2>>, q |-> <<0, 1, 2>>,
                           P |-> <<0, 1>>, Q |-> <<0, 1>>],
     decomposition |-> decomposition]

SalesVolumeRecommendations(s, frequency, data_type, d) ==
    [d |-> d, D |-> 1, s |-> s, frequency |-> frequency,
     data_type |-> data_type,
     suggested_ranges |-> [p |-> <<0, 1, 2>>, q |-> <<0, 1, 2>>,
                           P |-> <<0, 1, 2>>, Q |-> <<0, 1, 2>>]]

\* The adfuller calls an analysis of a series of n points makes: the
\* second check is only reached when the first did not raise.
ChecksRun(n, out1, out2) ==
    IF IsException(out1)
    THEN <<[n |-> n, out |-> out1]>>
    ELSE <<[n |-> n, out |-> out1], [n |-> DiffLen(n), out |-> out2]>>

\* Steps 1-2 and the d of step 5: an exception of either check or of the
\* plot leaves the analysis; otherwise d is computed from the two verdicts.
AnalysisOutcome(out1, out2, plot) ==
    LET is_stationary == CheckStationarity(out1)
        is_diff_stationary == CheckStationarity(out2)
    IN  IF IsException(is_stationary) THEN is_stationary
        ELSE IF IsException(is_diff_stationary) THEN is_diff_stationary
        ELSE IF plot = "raise" THEN PlotError
        ELSE [d_param |-> DParam(is_stationary.value, is_diff_stationary.value)]

\* Exit of an analysis of the series ts (its points, or its length only
\* when the caller passed the series).
FinishAnalysis(f, n, locals, result) ==
    /\ fn' = f
    /\ ts_len' = n
    /\ cur' = locals
    /\ ret' = result
    /\ pc' = IF IsException(result) THEN "raised" ELSE "returned"
    /\ UNCHANGED <<calls, model_configs, i, results, best_result, prev, fitLog,
                   fitMemo, fcMemo>>

AnalyzeSarimaParametersCall ==
    /\ pc = "idle"
    /\ \E n \in AnalysisLens, plot \in PlotOutcomes :
       \E out1 \in AdfOutcomes(n), out2 \in AdfOutcomes(DiffLen(n)),
          decomposition \in Decompositions(n) :
            LET o == AnalysisOutcome(out1, out2, plot)
            IN  FinishAnalysis("analyze_sarima_parameters", n,
                    [checks |-> ChecksRun(n, out1, out2)],
                    IF IsException(o) THEN o
                    ELSE PriceRecommendations(n, o.d_param, decomposition))

\* Both sales-volume analyses: the series is built from the table at
\* frequency freq, its first timestamp is printed (IndexError when the
\* series is empty), then the checks run.
AnalyzeSalesVolume(f, freq, s, frequency, data_type) ==
    \E df \in Tables, plot \in PlotOutcomes :
        LET ts == prepare_london_sales_volume_time_series(df, freq).ts
            n == Len(ts)
        IN  IF n = 0
            THEN FinishAnalysis(f, n, [ts |-> ts, checks |-> <<>>], IndexError)
            ELSE \E out1 \in AdfOutcomes(n), out2 \in AdfOutcomes(DiffLen(n)) :
                    LET o == AnalysisOutcome(out1, out2, plot)
                    IN  FinishAnalysis(f, n,
                            [ts |-> ts, checks |-> ChecksRun(n, out1, out2)],
                            IF IsException(o) THEN o
                            ELSE SalesVolumeRecommendations(s, frequency,
                                                            data_type,
                                                            o.d_param))

AnalyzeSalesVolumeSarimaParametersCall ==
    /\ pc = "idle"
    /\ AnalyzeSalesVolume("analyze_sales_volume_sarima_parameters", "W", 52,
                          "weekly", "sales_volume")

AnalyzeSalesVolumeSarimaParametersMonthlyCall ==
    /\ pc = "idle"
    /\ AnalyzeSalesVolume("analyze_sales_volume_sarima_parameters_monthly",
                          "M", 12, "monthly", "sales_volume_monthly")

\* A caller whose stationarity diagnostic failed on a series too short for
\* the test goes on to search models for the same series.
CompareModelsAfterFailedCheck ==
    /\ calls < MaxCalls
    /\ pc = "raised"
    /\ fn \in {"check_stationarity", "analyze_sarima_parameters"}
    /\ ts_len < MinAdfObs
    /\ \E cfgs \in ConfigLists : EnterComparison("compare_models", ts_len, cfgs)

----------------------------------------------------------------------------
(* scripts/sarima_model_comparison.py: main() compares sales-volume models *)
(* at the weekly and at the monthly frequency and prints a final summary.  *)
(* Every exception inside main() is caught by its `except Exception`,      *)
(* which prints it and ends the script.  The script's locals are in cur;   *)
(* of each frequency's four configurations the first MaxConfigs are kept.  *)

TypeError == [exc |-> "TypeError"]
FileNotFoundError == [exc |-> "FileNotFoundError"]

\* frequencies = [('W', 52, 'Weekly'), ('M', 12, 'Monthly')]
Frequencies ==
    <<[freq |-> "W", seasonal_period |-> 52, freq_name |-> "Weekly"],
      [freq |-> "M", seasonal_period |-> 12, freq_name |-> "Monthly"]>>

\* model_configs of one frequency (lines 38-43).
ComparisonConfigs(f) ==
    SubSeq(<<<<<<1, 1, 1>>, <<0, 1, 1, f.seasonal_period>>,
               <<"Basic SARIMA", f.freq_name>>>>,
             <<<<0, 1, 1>>, <<0, 1, 1, f.seasonal_period>>,
               <<"Pure MA", f.freq_name>>>>,
             <<<<1, 1, 0>>, <<1, 1, 0, f.seasonal_period>>,
               <<"AR with Seasonal", f.freq_name>>>>,
             <<<<2, 1, 2>>, <<1, 1, 1, f.seasonal_period>>,
               <<"Complex Model", f.freq_name>>>>>>,
           1, Min(4, MaxConfigs))

\* How the try body of one candidate can end for a series of n points: the
\* fit raises, or it succeeds and the forecast of ForecastSteps(n) steps
\* succeeds or raises (it always raises for fewer than 1 step).
TryOutcomes(n) ==
    {[outcome |-> FitError, exc |-> "none"]}
        \cup {[outcome |-> m, exc |-> "ForecastError"] : m \in ModelResults}
        \cup (IF ForecastSteps(n) < 1 THEN {}
              ELSE {[outcome |-> m, exc |-> "none"] : m \in ModelResults})

\* The entry compare_sales_volume_sarima_models appends for one candidate
\* (lines 287-314).
SalesVolumeEntry(n, cfg, out) ==
    IF TryBodyException(out) = "none"
    THEN [label |-> cfg[3], order |-> cfg[1], seasonal_order |-> cfg[2],
          model |-> out.outcome, forecast |-> [len |-> ForecastSteps(n)],
          forecast_ci |-> [len |-> ForecastSteps(n)], aic |-> out.outcome.aic,
          bic |-> out.outcome.bic, success |-> TRUE]
    ELSE [label |-> cfg[3], order |-> cfg[1], seasonal_order |-> cfg[2],
          model |-> NoResult, forecast |-> NoResult, forecast_ci |-> NoResult,
          aic |-> Inf, bic |-> Inf, success |-> FALSE,
          error |-> TryBodyException(out)]

\* compare_sales_volume_sarima_models(ts, model_configs) as a function of
\* the way each candidate's try body ends.
CompareSalesVolume(n, cfgs, outs) ==
    LET rs == [k \in 1..Len(cfgs) |-> SalesVolumeEntry(n, cfgs[k], outs[k])]
    IN  SalesVolumeReturnValue(rs, SelectBest(Successful(rs)))

\* Variant: the winner is used without looking at the count.
HasSuccess_Always(comparison) == TRUE

\* if results['successful_count'] > 0:
HasSuccess(comparison) == comparison.successful_count > 0

\* obj[key]; None is not subscriptable.
Subscript(obj, key) == IF obj = NoResult THEN TypeError ELSE [value |-> obj[key]]

\* sum(...) of a list of numbers.
RECURSIVE Sum(_)
Sum(seq) == IF seq = <<>> THEN 0 ELSE Head(seq) + Sum(Tail(seq))

\* End of main(): normally, or in its except clause after exception e.
EndScript(result) ==
    /\ ret' = result
    /\ pc' = "returned"

\* df = load_multi_year_data(); frequencies = [...]; all_results = []
ModelComparisonMain ==
    /\ pc = "idle"
    /\ fn' = "sarima_model_comparison"
    /\ \E loaded \in BOOLEAN :
        IF loaded
        THEN \E df \in Tables :
                /\ cur' = [ts_lens |->
                              [k \in 1..Len(Frequencies) |->
                                  Len(prepare_london_sales_volume_time_series(
                                          df, Frequencies[k].freq).ts)],
                           done |-> 0, all_results |-> <<>>, winner_reads |-> 0]
                /\ pc' = "frequencies"
                /\ ret' = NoResult
        ELSE /\ cur' = [ts_lens |-> <<>>, done |-> 0, all_results |-> <<>>,
                        winner_reads |-> 0]
             /\ EndScript(FileNotFoundError)
    /\ UNCHANGED <<calls, ts_len, model_configs, i, results, best_result, prev,
                   fitLog, fitMemo, fcMemo>>


\* One iteration of `for freq, seasonal_period, freq_name in frequencies`
\* (lines 29-70): the series is built and its first timestamp printed
\* (IndexError when it is empty), the models are compared, the result is
\* stored and the frequency's summary printed, which reads the winner's
\* label when the count of successes is positive.
ModelComparisonFrequency ==
    /\ pc = "frequencies" /\ fn = "sarima_model_comparison"
    /\ cur.done < Len(Frequencies)
    /\ LET f == Frequencies[cur.done + 1]
           n == cur.ts_lens[cur.done + 1]
           cfgs == ComparisonConfigs(f)
       IN  IF n = 0
           THEN EndScript(IndexError) /\ UNCHANGED cur
           ELSE \E outs \in [1..Len(cfgs) -> TryOutcomes(n)] :
                LET comparison == CompareSalesVolume(n, cfgs, outs)
                    stored == Append(cur.all_results,
                                     [frequency |-> f.freq_name,
                                      results |-> comparison,
                                      model_count |-> Len(cfgs)])
                    reads == HasSuccess(comparison)
                    label == Subscript(comparison.best_model, "label")
                IN  IF reads /\ IsException(label)
                    THEN /\ cur' = [cur EXCEPT !.all_results = stored]
                         /\ EndScript(label)
                    ELSE /\ cur' = [cur EXCEPT
                                      !.all_results = stored,
                                      !.done = @ + 1,
                                      !.winner_reads = @ + (IF reads THEN 1 ELSE 0)]
                         /\ UNCHANGED <<pc, ret>>
    /\ UNCHANGED <<fn, calls, ts_len, model_configs, i, results, best_result,
                   prev, fitLog, fitMemo, fcMemo>>

\* best_models of the final summary (lines 84-92): one entry per frequency
\* whose count of successes is positive, read from that frequency's winner.
BestModels(all_results) ==
    LET with == SelectSeq(all_results, LAMBDA r : HasSuccess(r.results))
    IN  IF \E k \in 1..Len(with) : with[k].results.best_model = NoResult
        THEN TypeError
        ELSE [list |-> [k \in 1..Len(with) |->
                          [frequency |-> with[k].frequency,
                           label |-> with[k].results.best_model.label,
                           aic |-> with[k].results.best_model.aic]]]

\* Variant: the overall best taken from the first frequency that has one.
OverallBest_First(best_models) ==
    IF best_models # <<>> THEN best_models[1] ELSE NoResult

\* if best_models: overall_best = min(best_models, key=lambda x: x['aic'])
OverallBest(best_models) ==
    IF best_models # <<>> THEN PyMinByAic(best_models) ELSE NoResult

\* Variant: the candidates of the last frequency only.
TotalModels_Last(all_results) == all_results[Len(all_results)].model_count

\* total_models = sum(r['model_count'] for r in all_results)
TotalModels(all_results) ==
    Sum([k \in 1..Len(all_results) |-> all_results[k].model_count])

\* total_successful = sum(r['results']['successful_count'] for r in all_results)
TotalSuccessful(all_results) ==
    Sum([k \in 1..Len(all_results) |-> all_results[k].results.successful_count])

\* The final summary (lines 72-100).
ModelComparisonSummary ==
    /\ pc = "frequencies" /\ fn = "sarima_model_comparison"
    /\ cur.done = Len(Frequencies)
    /\ LET best_models == BestModels(cur.all_results)
       IN  IF IsException(best_models)
           THEN EndScript(best_models) /\ UNCHANGED cur
           ELSE /\ cur' = [cur EXCEPT !.winner_reads = @ + Len(best_models.list)]
                /\ EndScript([total_models |-> TotalModels(cur.all_results),
                              total_successful |-> TotalSuccessful(cur.all_results),
                              overall_best |-> OverallBest(best_models.list)])
    /\ UNCHANGED <<fn, calls, ts_len, model_configs, i, results, best_result,
                   prev, fitLog, fitMemo, fcMemo>>

----------------------------------------------------------------------------
(* What the comparison functions print, src/src/statistical_models.py.     *)
(* The text printed is a function of the outcomes recorded so far.  An     *)
(* error text str(e) is the sequence of its characters, the k-th character *)
(* of the text of exception e being <<e, k>>.                              *)

\* Lengths of the library's error texts: a fit error longer than either
\* slice, "Prediction must have `end` after `start`." shorter.
ErrorTextLens == [FitError |-> 70, ForecastError |-> 41]
ErrorText(e) == [k \in 1..ErrorTextLens[e] |-> <<e, k>>]

\* str(e)[:width]
Slice(text, width) == SubSeq(text, 1, Min(width, Len(text)))

\* The line printed by the except clause of the loop:
\* compare_models (line 96):  "  Status: Failed ({str(e)[:50]}...)"
\* compare_sales_volume_sarima_models (line 302):
\*                            "  x Failed - {str(e)[:60]}..."
FailedLine(f, e) ==
    [status |-> "Failed",
     error |-> Slice(ErrorText(e), IF f = "compare_models" THEN 50 ELSE 60),
     ellipsis |-> "..."]

\* The lines the loop has printed for the outcomes recorded so far.
ProgressLines(f, rs) ==
    [k \in 1..Len(rs) |->
        IF rs[k].success
        THEN [status |-> "Success"]
        ELSE FailedLine(f, rs[k].error)]

\* Variant: the row of a failed candidate shows its error text.
ComparisonTableRow_WithError(result) ==
    IF result.success
    THEN [model |-> result.label, status |-> "Success",
          aic |-> [value |-> result.aic], bic |-> [value |-> result.bic],
          parameters |-> <<result.order, result.seasonal_order>>]
    ELSE [model |-> result.label, status |-> "Failed",
          aic |-> "N/A", bic |-> "N/A",
          parameters |-> <<result.order, result.seasonal_order>>,
          error |-> Slice(ErrorText(result.error), 60)]

\* One row of _print_model_comparison_table (lines 447-458): Model, Status,
\* AIC, BIC, Parameters.
ComparisonTableRow(result) ==
    IF result.success
    THEN [model |-> result.label, status |-> "Success",
          aic |-> [value |-> result.aic], bic |-> [value |-> result.bic],
          parameters |-> <<result.order, result.seasonal_order>>]
    ELSE [model |-> result.label, status |-> "Failed",
          aic |-> "N/A", bic |-> "N/A",
          parameters |-> <<result.order, result.seasonal_order>>]

\* _print_model_comparison_table(results); compare_models prints no table.
ComparisonTable(f, rs) ==
    IF f = "compare_sales_volume_sarima_models"
    THEN [k \in 1..Len(rs) |-> ComparisonTableRow(rs[k])]
    ELSE <<>>

----------------------------------------------------------------------------
(* load_data and clean_price_data, src/src/data_cleaning.py.  The file     *)
(* system is the environment: which of the data files exist and what the   *)
(* file read holds; it does not change during a call.                      *)

PriceFloor == 30000

DataFiles ==
    [synthetic |-> "data/processed/property_data_synthetic.csv",
     real |-> "data/processed/property_data_real.csv",
     sample |-> "data/samples/property_data_real_sample.csv"]
DatasetArgs == {"synthetic", "real", "sample", "auto", "multi_year"}
FileSystems == SUBSET {DataFiles[d] : d \in DOMAIN DataFiles}

\* Rows of a data file, by their Price.
PriceRows == {[Price |-> 29999], [Price |-> 30000], [Price |-> 250000]}
PriceTables == SeqsUpTo(PriceRows, MaxRows)

\* df[df['Price'] >= 30000].copy()
clean_price_data(df) == SelectSeq(df, LAMBDA r : r.Price >= PriceFloor)

\* if dataset == 'auto': 'real' if os.path.exists(real_path) else 'synthetic'
ResolveDataset(dataset, files) ==
    IF dataset = "auto"
    THEN IF DataFiles.real \in files THEN "real" ELSE "synthetic"
    ELSE dataset

\* Variant: every dataset is cleaned.
NeedsCleaning_Always(dataset) == TRUE

\* if dataset in ['real', 'sample'] and 'synthetic' not in data_type
NeedsCleaning(dataset) == dataset \in {"real", "sample"}

\* load_data(dataset): the locals at the end of the call and its result.
\* `reads` lists the files opened by pd.read_csv.
load_data(dataset, files, contents) ==
    LET resolved == ResolveDataset(dataset, files)
    IN  IF resolved \notin DOMAIN DataFiles
        THEN [dataset |-> resolved, reads |-> <<>>, result |-> ValueError]
        ELSE IF DataFiles[resolved] \notin files
        THEN [dataset |-> resolved, reads |-> <<>>, result |-> FileNotFoundError]
        ELSE [dataset |-> resolved, reads |-> <<DataFiles[resolved]>>,
              result |-> [df |-> IF NeedsCleaning(resolved)
                                 THEN clean_price_data(contents)
                                 ELSE contents]]

LoadDataCall ==
    /\ pc = "idle"
    /\ \E dataset \in DatasetArgs, files \in FileSystems, contents \in PriceTables :
        LET end == load_data(dataset, files, contents)
        IN  /\ cur' = [arg |-> dataset, files |-> files, contents |-> contents,
                       dataset |-> end.dataset, reads |-> end.reads]
            /\ ret' = end.result
            /\ pc' = IF IsException(end.result) THEN "raised" ELSE "returned"
    /\ fn' = "load_data"
    /\ UNCHANGED <<calls, ts_len, model_configs, i, results, best_result, prev,
                   fitLog, fitMemo, fcMemo>>

----------------------------------------------------------------------------
(* scripts/fit_sarima_model.py: main() *)

\* models_to_try (lines 36-42).
ModelsToTry ==
    SubSeq(<<<<<<1, 1, 1>>, <<0, 1, 1, 52>>>>,
             <<<<1, 1, 0>>, <<0, 1, 1, 52>>>>,
             <<<<0, 1, 1>>, <<0, 1, 1, 52>>>>,
             <<<<2, 1, 2>>, <<1, 1, 1, 52>>>>,
             <<<<1, 1, 1>>, <<1, 1, 0, 52>>>>>>,
           1, Min(5, MaxConfigs))

\* The entry compare_models appends for one candidate (lines 78-99).
CompareModelsEntry(cfg, outcome) ==
    IF outcome # FitError
    THEN [order |-> cfg[1], seasonal_order |-> cfg[2], model |-> outcome,
          aic |-> outcome.aic, bic |-> outcome.bic, success |-> TRUE]
    ELSE [order |-> cfg[1], seasonal_order |-> cfg[2], model |-> NoResult,
          aic |-> Inf, bic |-> Inf, success |-> FALSE, error |-> "FitError"]

\* compare_models(ts, model_configs) as a function of the way each fit ends.
CompareModels(cfgs, outs) ==
    LET rs == [k \in 1..Len(cfgs) |-> CompareModelsEntry(cfgs[k], outs[k])]
    IN  CompareModelsReturnValue(rs, SelectBest(Successful(rs)))

\* Variant: the winner is used whatever it is.
IsNotNone_Always(obj) == TRUE

\* if best_model_info is not None:
IsNotNone(obj) == obj # NoResult

\* Lines 26-46: the data is loaded, the weekly series built and its first
\* timestamp printed (IndexError when it is empty), the models compared.
FitSarimaScriptMain ==
    /\ pc = "idle"
    /\ fn' = "fit_sarima_model_script"
    /\ \E loaded \in BOOLEAN :
        IF loaded
        THEN \E df \in Tables :
                LET n == Len(prepare_london_time_series(df, "W").ts)
                IN  IF n = 0
                    THEN /\ cur' = [n |-> n, comparison |-> NoResult,
                                    winner_reads |-> 0, forecasts |-> 0]
                         /\ EndScript(IndexError)
                    ELSE \E outs \in [1..Len(ModelsToTry) -> FitOutcomes] :
                            /\ cur' = [n |-> n,
                                       comparison |-> CompareModels(ModelsToTry, outs),
                                       winner_reads |-> 0, forecasts |-> 0]
                            /\ pc' = "compared"
                            /\ ret' = NoResult
        ELSE /\ cur' = [n |-> 0, comparison |-> NoResult, winner_reads |-> 0,
                        forecasts |-> 0]
             /\ EndScript(FileNotFoundError)
    /\ UNCHANGED <<calls, ts_len, model_configs, i, results, best_result, prev,
                   fitLog, fitMemo, fcMemo>>

\* Lines 46-85: the winner's model, order and seasonal_order are read and a
\* 52-step forecast made when best_model is not None; otherwise the script
\* reports that no model was fitted.  The forecast is the library's and may
\* raise; main's except clause then ends the script.
FitSarimaScriptWinner ==
    /\ pc = "compared" /\ fn = "fit_sarima_model_script"
    /\ LET best_model_info == cur.comparison.best_model
           best_model == Subscript(best_model_info, "model")
       IN  IF IsNotNone(best_model_info)
           THEN IF IsException(best_model)
                THEN EndScript(best_model) /\ UNCHANGED cur
                ELSE \E fc \in {"ok", "raise"} :
                        /\ cur' = [cur EXCEPT !.winner_reads = 1, !.forecasts = 1]
                        /\ EndScript(IF fc = "ok"
                                     THEN [forecast |-> [len |-> 52],
                                           model |-> best_model.value]
                                     ELSE [exc |-> "ForecastError"])
           ELSE EndScript([message |-> "No models successfully fitted"])
                    /\ UNCHANGED cur
    /\ UNCHANGED <<fn, calls, ts_len, model_configs, i, results, best_result,
                   prev, fitLog, fitMemo, fcMemo>>

----------------------------------------------------------------------------
(* load_multi_year_data, src/src/time_series_analysis.py (the copy in      *)
(* src/src/analysis.py is the same statement for statement).  The raw      *)
(* files are the environment: which of them exist and the rows they hold.  *)

MaxYearRows == 2

\* years = ['2022', '2023', '2024']
Years == <<2022, 2023, 2024>>

\* Rows of the raw file of year y, by their Price.
YearRows(y) == {[Price |-> p, Year |-> y] : p \in {29999, 30000}}
YearTables(y) == SeqsUpTo(YearRows(y), MaxYearRows)

\* What the raw file of year y can hold: nothing is read from a missing file.
RawFile(y, exists) == IF y \in exists THEN YearTables(y) ELSE {<<>>}

\* Variant: a price of exactly 30000 is dropped as well.
FilterLowPrices_Strict(df) == SelectSeq(df, LAMBDA r : r.Price > PriceFloor)

\* df_clean = df_clean[df_clean['Price'] >= 30000]
FilterLowPrices(df) == SelectSeq(df, LAMBDA r : r.Price >= PriceFloor)

\* The loop over years from the k-th year on: the cleaned table of every
\* year whose file exists, in the order of the loop.
RECURSIVE AllData(_, _, _)
AllData(k, exists, files) ==
    IF k > Len(Years) THEN <<>>
    ELSE (IF Years[k] \in exists
          THEN <<[year |-> Years[k], df |-> FilterLowPrices(files[Years[k]])]>>
          ELSE <<>>)
         \o AllData(k + 1, exists, files)

\* pd.concat(all_data, ignore_index=True)
RECURSIVE Concat(_)
Concat(all_data) ==
    IF all_data = <<>> THEN <<>> ELSE Head(all_data).df \o Concat(Tail(all_data))

\* if all_data: return combined_df, else: raise FileNotFoundError
load_multi_year_data(exists, files) ==
    LET all_data == AllData(1, exists, files)
    IN  [loaded |-> [k \in 1..Len(all_data) |-> all_data[k].year],
         result |-> IF all_data # <<>> THEN [df |-> Concat(all_data)]
                    ELSE FileNotFoundError]

LoadMultiYearDataCall ==
    /\ pc = "idle"
    /\ \E exists \in SUBSET {2022, 2023, 2024} :
       \E f22 \in RawFile(2022, exists), f23 \in RawFile(2023, exists),
          f24 \in RawFile(2024, exists) :
        LET files == [y \in {2022, 2023, 2024} |->
                         IF y = 2022 THEN f22 ELSE IF y = 2023 THEN f23 ELSE f24]
            end == load_multi_year_data(exists, files)
        IN  /\ cur' = [exists |-> exists, files |-> files, loaded |-> end.loaded]
            /\ ret' = end.result
            /\ pc' = IF IsException(end.result) THEN "raised" ELSE "returned"
    /\ fn' = "load_multi_year_data"
    /\ UNCHANGED <<calls, ts_len, model_configs, i, results, best_result, prev,
                   fitLog, fitMemo, fcMemo>>

----------------------------------------------------------------------------

Next ==
    \/ FitSarimaModelCall
    \/ CompareModelsCall
    \/ CompareModelsNext
    \/ CompareModelsFit
    \/ CompareModelsRecord
    \/ CompareModelsSelect
    \/ SalesVolumeCall
    \/ SalesVolumeNext
    \/ SalesVolumeFit
    \/ SalesVolumeForecast
    \/ SalesVolumeRecord
    \/ SalesVolumeSelect
    \/ SalesVolumePlotReturn
    \/ Forecast2025Call
    \/ ForecastWithConfidenceCall
    \/ CheckStationarityCall
    \/ PrepareLondonTimeSeriesCall
    \/ PrepareLondonSalesVolumeTimeSeriesCall
    \/ AnalyzeSarimaParametersCall
    \/ AnalyzeSalesVolumeSarimaParametersCall
    \/ AnalyzeSalesVolumeSarimaParametersMonthlyCall
    \/ CompareModelsAfterFailedCheck
    \/ ModelComparisonMain
    \/ ModelComparisonFrequency
    \/ ModelComparisonSummary
    \/ LoadDataCall
    \/ FitSarimaScriptMain
    \/ FitSarimaScriptWinner
    \/ LoadMultiYearDataCall

Spec == Init /\ [][Next]_vars

----------------------------------------------------------------------------
(* Properties of the comparison engine *)

IsComparison == fn \in {"compare_models", "compare_sales_volume_sarima_models"}

\* Number of items each function unpacks from a candidate.
Arity == IF fn = "compare_models" THEN 2 ELSE 3

\* Number of fits of the current call that ended without an exception.
FitSuccesses == Cardinality({k \in 1..Len(fitLog) : fitLog[k].outcome # FitError})

SuccessIndexes(rs) == {k \in 1..Len(rs) : rs[k].success}

\* C1: a comparison over N candidates of which M fit successfully returns
\* exactly N outcomes, exactly M of them marked success.
C1_OutcomeCounts ==
    (IsComparison /\ pc = "returned") =>
        /\ Len(ret.results) = Len(model_configs)
        /\ Cardinality(SuccessIndexes(ret.results)) = FitSuccesses

\* C2: a fit that raises is recorded as a failed outcome carrying the error,
\* the loop goes on to fit every later candidate, and the only exception
\* that leaves a comparison is the unpacking error of the for statement,
\* never the fit's.
C2_FitFailureAbsorbed ==
    IsComparison =>
        /\ \A k \in 1..Len(results) :
              fitLog[k].outcome = FitError =>
                  /\ ~results[k].success
                  /\ results[k].error = "FitError"
                  /\ results[k].model = NoResult
        /\ pc = "raised" => cur = [exc |-> "ValueError"]
        /\ pc = "returned" => Len(fitLog) = Len(model_configs)

C2_Witness ==
    /\ IsComparison /\ pc = "returned"
    /\ Len(fitLog) = 2
    /\ fitLog[1].outcome = FitError
    /\ ~ret.results[1].success

\* C3: when at least one candidate succeeds, the best model is a success
\* whose AIC is the minimum over the successes, and among several successes
\* with that AIC it is the earliest in the candidate order.
C3_BestIsFirstMinAic ==
    (IsComparison /\ pc = "returned" /\ SuccessIndexes(ret.results) # {}) =>
        LET rs == ret.results
            succ == SuccessIndexes(rs)
            minimal == {k \in succ : \A j \in succ : rs[k].aic <= rs[j].aic}
            first == CHOOSE k \in minimal : \A j \in minimal : k <= j
        IN /\ ret.best_model = rs[first]
           /\ ret.best_model.success

C3_Witness ==
    /\ IsComparison /\ pc = "returned"
    /\ Len(ret.results) = 2
    /\ ret.results[1].success /\ ret.results[2].success
    /\ ret.results[1].aic = ret.results[2].aic
    /\ ret.results[1] # ret.results[2]
    /\ ret.best_model = ret.results[1]

\* C4: when no candidate succeeds, the empty list included, the comparison
\* returns with best model None and an outcome for every candidate.
C4_NoSuccessGivesNone ==
    (IsComparison /\ pc \in {"select", "plot", "returned"}
        /\ SuccessIndexes(results) = {}) =>
        /\ pc = "returned" =>
              /\ ret.best_model = NoResult
              /\ ret.results = results
        /\ pc = "plot" => best_result = NoResult
        /\ Len(results) = Len(model_configs)

C4_Witness ==
    /\ IsComparison /\ pc = "returned"
    /\ Len(model_configs) = 2
    /\ SuccessIndexes(ret.results) = {}
    /\ ret.best_model = NoResult

\* C5: in compare_sales_volume_sarima_models an outcome is marked success
\* exactly when the candidate's fit succeeded, whatever the forecast did.
C5_SuccessDependsOnlyOnFit ==
    fn = "compare_sales_volume_sarima_models" =>
        \A k \in 1..Len(results) :
            results[k].success = (fitLog[k].outcome # FitError)

\* C6 as stated: a list whose entries come with or without a label is
\* accepted by the comparison: no entry aborts it and each yields an outcome.
C6_AnyShapeAccepted ==
    IsComparison =>
        /\ pc # "raised"
        /\ pc = "returned" => Len(ret.results) = Len(model_configs)

\* C6 amended: compare_models accepts entries of two items and
\* compare_sales_volume_sarima_models entries of three; a list of such
\* entries is never aborted and yields one outcome per entry, and the first
\* entry of the other shape aborts the call with the unpacking error, after
\* the entries before it were recorded.
C6_ShapePerFunction ==
    IsComparison =>
        /\ pc = "raised" =>
              /\ cur = [exc |-> "ValueError"]
              /\ Len(model_configs[i + 1]) # Arity
              /\ \A k \in 1..i : Len(model_configs[k]) = Arity
              /\ Len(results) = i
        /\ pc = "returned" =>
              /\ \A k \in 1..Len(model_configs) : Len(model_configs[k]) = Arity
              /\ Len(ret.results) = Len(model_configs)

C6_Witness ==
    /\ fn = "compare_models" /\ pc = "raised"
    /\ i = 1 /\ Len(results) = 1
    /\ Len(model_configs[2]) = 3

\* C7 as stated: every comparison result holds the outcomes, the count of
\* successes and the best model; the count is the number of outcomes marked
\* success and the best model is None exactly when the count is 0.
C7_ResultHoldsCount ==
    (IsComparison /\ pc = "returned") =>
        /\ DOMAIN ret = {"results", "best_model", "successful_count"}
        /\ ret.successful_count = Cardinality(SuccessIndexes(ret.results))
        /\ (ret.best_model = NoResult) <=> (ret.successful_count = 0)

\* C7 amended: the result of compare_sales_volume_sarima_models holds the
\* outcomes, the count of successes and the best model, the count being the
\* number of outcomes marked success and the best model None exactly when it
\* is 0; the result of compare_models holds the outcomes and the best model
\* only, the best model being None exactly when no outcome is marked success.
C7_ResultShape ==
    (IsComparison /\ pc = "returned") =>
        IF fn = "compare_sales_volume_sarima_models"
        THEN /\ DOMAIN ret = {"results", "best_model", "successful_count"}
             /\ ret.results = results
             /\ ret.successful_count = Cardinality(SuccessIndexes(ret.results))
             /\ (ret.best_model = NoResult) <=> (ret.successful_count = 0)
        ELSE /\ DOMAIN ret = {"results", "best_model"}
             /\ ret.results = results
             /\ (ret.best_model = NoResult) <=> (SuccessIndexes(ret.results) = {})

C7_Witness ==
    /\ fn = "compare_sales_volume_sarima_models" /\ pc = "returned"
    /\ Len(ret.results) = 2
    /\ ret.successful_count = 1
    /\ ret.best_model # NoResult

\* C8: within one call each candidate is fitted exactly once, in the order
\* of the list, the fit of a candidate starting only after the outcome of
\* the one before it is recorded; a failed candidate is not fitted again.
C8_FittedOnceInOrder ==
    IsComparison =>
        /\ Len(fitLog) = (IF pc = "fit" THEN i - 1 ELSE i)
        /\ Len(results) = (IF pc \in {"fit", "forecast", "record"} THEN i - 1 ELSE i)
        /\ \A k \in 1..Len(fitLog) :
              /\ fitLog[k].order = model_configs[k][1]
              /\ fitLog[k].seasonal_order = model_configs[k][2]
        /\ pc = "returned" => Len(fitLog) = Len(model_configs)

C8_Witness ==
    /\ IsComparison /\ pc = "returned"
    /\ Len(model_configs) = 2
    /\ Len(fitLog) = 2
    /\ fitLog[1].outcome = FitError
    /\ fitLog[2].outcome # FitError
    /\ model_configs[1] # model_configs[2]

\* C9: a call of compare_models that repeats the series and the candidate
\* list of an earlier call returns what the earlier call returned: the same
\* success marks, AIC and BIC per candidate and the same best model.
C9_RepeatedCallSameResult ==
    (fn = "compare_models" /\ pc = "returned") =>
        \A k \in 1..Len(prev) : prev[k] = ret

C9_Witness ==
    /\ fn = "compare_models" /\ pc = "returned"
    /\ Len(prev) >= 1
    /\ Len(ret.results) = 2
    /\ ret.results[1].success /\ ~ret.results[2].success
    /\ prev[1] = ret

\* C10: fit_sarima_model called without a seasonal order hands SARIMAX
\* (0,1,1,52) when the series has more than 100 points and (0,1,1,12)
\* otherwise, 100 points included; a seasonal order given by the caller is
\* handed on unchanged.
C10_DefaultSeasonalOrder ==
    \A k \in 1..Len(fitLog) :
        LET e == fitLog[k]
        IN /\ (e.seasonal_order = None /\ e.n > 100) => e.passed = <<0, 1, 1, 52>>
           /\ (e.seasonal_order = None /\ e.n <= 100) => e.passed = <<0, 1, 1, 12>>
           /\ e.seasonal_order # None => e.passed = e.seasonal_order

C10_Witness ==
    /\ fn = "fit_sarima_model" /\ pc = "returned"
    /\ fitLog[1].n = 100
    /\ fitLog[1].seasonal_order = None
    /\ fitLog[1].passed = <<0, 1, 1, 12>>

----------------------------------------------------------------------------
(* Properties of the forecast functions *)

IsForecast == fn \in {"forecast_2025", "forecast_with_confidence"}

\* The interval returned next to the point forecast.
ReturnedInterval ==
    IF fn = "forecast_2025" THEN ret.forecast_ci ELSE ret.confidence_intervals

\* One unit of a series' frequency after an on-offset date.
OneUnitAfter(d, freq) == IF freq = "W" THEN d + 7 ELSE MonthEnd(MonthOf(d) + 1)

\* C11: with no horizon given, the forecast uses 52 steps for a weekly
\* series and 12 steps for a monthly one, whatever the series' length.
C11_DefaultStepsByFrequency ==
    (IsForecast /\ cur.steps_arg = StepsNone /\ cur.ts_index # NoResult) =>
        cur.steps = (IF cur.ts_index.freq = "W" THEN 52 ELSE 12)

\* C12: given the series index, the forecast carries exactly `steps`
\* timestamps, the first one unit of the series' frequency after the last
\* timestamp of the series and each next one unit after the one before,
\* for weekly and monthly series of any length.
C12_ForecastDatesFollowFrequency ==
    (IsForecast /\ pc = "returned" /\ cur.ts_index # NoResult) =>
        LET idx == ret.forecast.index
            freq == cur.ts_index.freq
        IN /\ Len(idx) = cur.steps
           /\ idx[1] = OneUnitAfter(cur.ts_index.last, freq)
           /\ \A k \in 1..(Len(idx) - 1) :
                 idx[k + 1] = OneUnitAfter(idx[k], freq) /\ idx[k] < idx[k + 1]

\* C13: the point forecast and the interval returned with it have the same
\* length and the same timestamp at every position, with and without a
\* series index.
C13_ForecastAligned ==
    (IsForecast /\ pc = "returned") =>
        LET f == ret.forecast.index
            c == ReturnedInterval.index
        IN /\ Len(f) = cur.steps
           /\ Len(c) = Len(f)
           /\ \A k \in 1..Len(f) : f[k] = c[k]

C13_Witness ==
    /\ fn = "forecast_2025" /\ pc = "returned"
    /\ cur.ts_index # NoResult
    /\ cur.steps = 12
    /\ Len(ret.forecast_ci.index) = 12
    /\ ret.forecast_ci.index[1] > 0

----------------------------------------------------------------------------
(* Properties of the stationarity check and the parameter analyses *)

\* C14: check_stationarity returns True exactly when the p-value of the
\* unit-root test is at most 0.05 (0.05 itself counts as stationary), and
\* False otherwise.
C14_StationaryIffPValueAtMost005 ==
    (fn = "check_stationarity" /\ pc = "returned") =>
        /\ ~IsException(cur.checks[1].out)
        /\ ret.value \in BOOLEAN
        /\ ret.value = TRUE <=> cur.checks[1].out.p_value <= SignificanceLevel
        /\ ret.value = FALSE <=> cur.checks[1].out.p_value > SignificanceLevel

C14_Witness ==
    /\ fn = "check_stationarity" /\ pc = "returned"
    /\ cur.checks[1].out.p_value = SignificanceLevel
    /\ ret.value = TRUE


IsAnalysis ==
    fn \in {"analyze_sarima_parameters",
            "analyze_sales_volume_sarima_parameters",
            "analyze_sales_volume_sarima_parameters_monthly"}

\* The verdict of the k-th stationarity check of the current analysis.
Judged(k) == cur.checks[k].out.p_value <= SignificanceLevel

\* C15: the recommended d is 0 or 1, and it is 1 exactly when the original
\* series was judged non-stationary and its first difference stationary,
\* in the price analysis and in both sales-volume analyses.
C15_DifferencingOrder ==
    (IsAnalysis /\ pc = "returned") =>
        /\ ret.d \in {0, 1}
        /\ Len(cur.checks) = 2
        /\ cur.checks[2].n = ts_len - 1
        /\ ret.d = 1 <=> (~Judged(1) /\ Judged(2))

C15_Witness ==
    /\ fn = "analyze_sales_volume_sarima_parameters_monthly"
    /\ pc = "returned"
    /\ ~Judged(1) /\ Judged(2)
    /\ ret.d = 1


InsufficientDataError == [exc |-> "InsufficientDataError"]

\* C16: the stationarity check of a series of fewer than 4 points fails
\* with InsufficientDataError, whether called directly or from an analysis,
\* and a model search entered afterwards on the same series is not
\* stopped by that failure.
C16_ShortSeriesInsufficientData ==
    /\ (fn = "check_stationarity" \/ IsAnalysis) =>
            \A k \in 1..Len(cur.checks) :
                cur.checks[k].n < 4 =>
                    pc = "raised" /\ ret = InsufficientDataError
    /\ (fn = "compare_models" /\ ts_len < 4 /\ pc = "raised") =>
            \E k \in 1..Len(model_configs) : ~Unpacks(model_configs[k], 2)


----------------------------------------------------------------------------
(* Properties of the series builders *)

IsBuilder ==
    fn \in {"prepare_london_time_series",
            "prepare_london_sales_volume_time_series"}

EmptyInputError == [exc |-> "EmptyInputError"]

\* C17: a builder whose table has no row left after the London filter
\* fails with EmptyInputError, in mean mode and in count mode, and no
\* builder returns an empty series.
C17_EmptyInputRejected ==
    IsBuilder =>
        /\ filter_london_properties(cur.df) = <<>> =>
                pc = "raised" /\ ret = EmptyInputError
        /\ pc = "returned" => ret.ts # <<>>


\* The London rows of the table of the current call, by position, and the
\* period end each falls into at the call's frequency.
LondonRows == {k \in 1..Len(cur.df) : cur.df[k].Postcode_Area \in LONDON_POSTCODES}
AliasOfCall ==
    IF fn = "prepare_london_time_series" THEN MeanAliases[cur.freq]
    ELSE CountAliases[cur.freq]
BucketOf(k) == RollForward(cur.df[k].Date, AliasOfCall)
InBucket(b) == {k \in LondonRows : BucketOf(k) = b}
NonEmptyBuckets == {BucketOf(k) : k \in LondonRows}

RECURSIVE PriceSum(_)
PriceSum(S) ==
    IF S = {} THEN 0
    ELSE LET k == CHOOSE x \in S : TRUE
         IN  cur.df[k].Price + PriceSum(S \ {k})

\* Period ends from the first to the last non-empty one.
SpannedBuckets ==
    IF NonEmptyBuckets = {}
    THEN {}
    ELSE LET lo == CHOOSE b \in NonEmptyBuckets : \A c \in NonEmptyBuckets : b <= c
             hi == CHOOSE b \in NonEmptyBuckets : \A c \in NonEmptyBuckets : c <= b
         IN  {b \in lo..hi : RollForward(b, AliasOfCall) = b}

Timestamps(ts) == {ts[k].t : k \in 1..Len(ts)}

\* C18: in mean mode the series has exactly one point per non-empty bucket,
\* holding the arithmetic mean of the bucket's prices; in count mode it has
\* exactly one point per bucket from the first to the last transaction,
\* holding the bucket's number of rows, 0 where there is none.
C18_MeanAndCountPerBucket ==
    (IsBuilder /\ pc = "returned") =>
        IF fn = "prepare_london_time_series"
        THEN /\ Timestamps(ret.ts) = NonEmptyBuckets
             /\ Len(ret.ts) = Cardinality(NonEmptyBuckets)
             /\ \A k \in 1..Len(ret.ts) :
                    LET S == InBucket(ret.ts[k].t)
                    IN  /\ Len(ret.ts[k].v) = 2
                        /\ ret.ts[k].v[2] > 0
                        /\ ret.ts[k].v[1] * Cardinality(S)
                                = PriceSum(S) * ret.ts[k].v[2]
        ELSE /\ Timestamps(ret.ts) = SpannedBuckets
             /\ Len(ret.ts) = Cardinality(SpannedBuckets)
             /\ \A k \in 1..Len(ret.ts) :
                    ret.ts[k].v = <<Cardinality(InBucket(ret.ts[k].t)), 1>>

C18_Witness ==
    /\ IsBuilder /\ pc = "returned"
    /\ fn = "prepare_london_sales_volume_time_series"
    /\ Len(ret.ts) = 4
    /\ ret.ts[1].v = <<2, 1>>
    /\ ret.ts[2].v = <<0, 1>>
    /\ ret.ts[4].v = <<1, 1>>


IsWeeklyMean ==
    fn = "prepare_london_time_series" /\ pc = "returned" /\ cur.freq = "W"

\* C19: the weekly mean-price series has strictly increasing timestamps
\* without duplicates, consecutive ones exactly one week apart.
C19_WeeklySpacedExactly ==
    IsWeeklyMean =>
        \A k \in 1..(Len(ret.ts) - 1) :
            /\ ret.ts[k].t < ret.ts[k + 1].t
            /\ ret.ts[k + 1].t = ret.ts[k].t + 7

\* C19 as the code has it: the timestamps are week-ending Sundays, strictly
\* increasing without duplicates, and consecutive ones are a whole number of
\* weeks apart: one week plus one for every week in between that has no
\* London row.
C19_WeeklyOnGrid ==
    IsWeeklyMean =>
        /\ \A k \in 1..Len(ret.ts) : IsSunday(ret.ts[k].t)
        /\ \A k, l \in 1..Len(ret.ts) : k < l => ret.ts[k].t < ret.ts[l].t
        /\ \A k \in 1..(Len(ret.ts) - 1) :
            LET skipped == {b \in (ret.ts[k].t + 1)..(ret.ts[k + 1].t - 1) :
                                IsSunday(b)}
            IN  /\ ret.ts[k + 1].t = ret.ts[k].t + 7 * (1 + Cardinality(skipped))
                /\ \A b \in skipped : InBucket(b) = {}

C19_Witness ==
    /\ IsWeeklyMean
    /\ Len(ret.ts) = 3
    /\ ret.ts[2].t = ret.ts[1].t + 21
    /\ ret.ts[3].t > ret.ts[2].t + 7


LondonRowsOfCall == filter_london_properties(cur.df)

\* C20: on a non-empty table a builder succeeds for each of the two modes
\* with each of the frequencies weekly, monthly and quarterly, and rejects
\* exactly the other frequencies, with a ValueError.
C20_AllModesAllFrequencies ==
    (IsBuilder /\ LondonRowsOfCall # <<>>) =>
        /\ pc = "returned" <=> cur.freq \in {"W", "M", "Q"}
        /\ pc = "raised" => ret = ValueError

\* C20 as the code has it: the mean builder accepts weekly, monthly and
\* quarterly, the count builder weekly and monthly only; every other
\* frequency, quarterly in count mode included, is rejected with a
\* ValueError.
C20_FrequenciesPerMode ==
    IsBuilder =>
        LET accepted == IF fn = "prepare_london_time_series"
                        THEN {"W", "M", "Q"}
                        ELSE {"W", "M"}
        IN  /\ pc = "returned" <=> cur.freq \in accepted
            /\ pc = "raised" <=> cur.freq \notin accepted
            /\ pc = "raised" => ret = ValueError

C20_Witness ==
    /\ fn = "prepare_london_sales_volume_time_series"
    /\ LondonRowsOfCall # <<>>
    /\ cur.freq = "Q"
    /\ pc = "raised"
    /\ ret = ValueError


\* The timestamps of the series of the current call as a table of London
\* rows, one row per point.
Rebucketed(build(_, _)) ==
    build([k \in 1..Len(ret.ts) |->
              [Date |-> ret.ts[k].t, Price |-> 100, Postcode_Area |-> "E"]],
          cur.freq)

IsWeeklyBuilt == IsBuilder /\ pc = "returned" /\ cur.freq = "W"

\* C21: weekly bucketing is idempotent: bucketing the timestamps of a
\* weekly series again at the weekly frequency gives the same set of bucket
\* timestamps, and every timestamp is its own bucket.
C21_WeeklyBucketingIdempotent ==
    IsWeeklyBuilt =>
        /\ \A k \in 1..Len(ret.ts) : RollForward(ret.ts[k].t, "W") = ret.ts[k].t
        /\ IF fn = "prepare_london_time_series"
           THEN Timestamps(Rebucketed(prepare_london_time_series).ts)
                    = Timestamps(ret.ts)
           ELSE Timestamps(Rebucketed(prepare_london_sales_volume_time_series).ts)
                    = Timestamps(ret.ts)

C21_Witness ==
    /\ IsWeeklyBuilt
    /\ fn = "prepare_london_time_series"
    /\ Len(ret.ts) = 2
    /\ ret.ts[2].t = ret.ts[1].t + 21


----------------------------------------------------------------------------
(* Properties of the scripts *)

\* The comparison script reached the end of its final summary.
SummaryPrinted ==
    fn = "sarima_model_comparison" /\ pc = "returned" /\ ~IsException(ret)

\* The outcomes marked success of all frequencies, as <<frequency, index>>.
AllSuccesses ==
    {p \in (1..Len(cur.all_results)) \X (1..4) :
        /\ p[2] <= Len(cur.all_results[p[1]].results.results)
        /\ cur.all_results[p[1]].results.results[p[2]].success}
OutcomeAt(p) == cur.all_results[p[1]].results.results[p[2]]

\* C22: the overall best of the comparison script is a success of minimum
\* AIC over the successes of all frequencies, which is also the minimum
\* over the per-frequency bests; none is reported exactly when no frequency
\* had a success.
C22_OverallBestIsGlobalMinimum ==
    SummaryPrinted =>
        /\ ret.overall_best = NoResult <=> AllSuccesses = {}
        /\ ret.overall_best # NoResult =>
            /\ \E p \in AllSuccesses :
                /\ OutcomeAt(p).aic = ret.overall_best.aic
                /\ OutcomeAt(p).label = ret.overall_best.label
                /\ cur.all_results[p[1]].frequency = ret.overall_best.frequency
            /\ \A p \in AllSuccesses : ret.overall_best.aic <= OutcomeAt(p).aic
            /\ \E k \in 1..Len(cur.all_results) :
                /\ cur.all_results[k].results.best_model # NoResult
                /\ cur.all_results[k].results.best_model.aic = ret.overall_best.aic
            /\ \A k \in 1..Len(cur.all_results) :
                cur.all_results[k].results.best_model # NoResult =>
                    ret.overall_best.aic <= cur.all_results[k].results.best_model.aic

C22_Witness ==
    /\ SummaryPrinted
    /\ cur.all_results[1].results.successful_count > 0
    /\ ret.overall_best # NoResult
    /\ ret.overall_best.frequency = "Monthly"
    /\ ret.overall_best.aic < cur.all_results[1].results.best_model.aic


\* C23: the final summary's total of models tested is the sum of the
\* lengths of the candidate lists of the frequencies, its total of
\* successful models is the sum of the frequencies' success counts, and the
\* successes never exceed the models tested.
C23_SummaryTotals ==
    SummaryPrinted =>
        /\ Len(cur.all_results) = 2
        /\ ret.total_models
              = Len(ComparisonConfigs(Frequencies[1]))
                  + Len(ComparisonConfigs(Frequencies[2]))
        /\ ret.total_models
              = Len(cur.all_results[1].results.results)
                  + Len(cur.all_results[2].results.results)
        /\ ret.total_successful
              = cur.all_results[1].results.successful_count
                  + cur.all_results[2].results.successful_count
        /\ ret.total_successful = Cardinality(AllSuccesses)
        /\ ret.total_successful <= ret.total_models

C23_Witness ==
    /\ SummaryPrinted
    /\ cur.all_results[1].results.successful_count = 1
    /\ cur.all_results[2].results.successful_count = 2
    /\ ret.total_successful = 3
    /\ ret.total_models > ret.total_successful


----------------------------------------------------------------------------
(* Properties of the printed report and of the outcomes *)

FailedIndexes(rs) == {k \in 1..Len(rs) : ~rs[k].success}

\* C24: the comparison table has, for every failed candidate, a row that
\* reports a truncated form of the candidate's error message.
C24_TableRowReportsError ==
    (IsComparison /\ pc = "returned") =>
        LET table == ComparisonTable(fn, ret.results)
        IN  \A k \in FailedIndexes(ret.results) :
                /\ k <= Len(table)
                /\ "error" \in DOMAIN table[k]
                /\ \E w \in 1..Len(ErrorText(ret.results[k].error)) :
                        table[k].error = Slice(ErrorText(ret.results[k].error), w)

\* C24 as the code has it: the table exists in the sales-volume comparison
\* only, and its row of a failed candidate shows the label, the status
\* Failed, N/A for AIC and BIC and the parameters, without the error.  The
\* truncated error (the first 50 characters in compare_models, the first
\* 60 in the sales-volume comparison, followed by "...") is in the line
\* printed when the failure is caught; the full text is in the outcome.
C24_ErrorInProgressLine ==
    (IsComparison /\ pc = "returned") =>
        LET table == ComparisonTable(fn, ret.results)
            lines == ProgressLines(fn, ret.results)
            width == IF fn = "compare_models" THEN 50 ELSE 60
        IN  /\ Len(table) = (IF fn = "compare_models" THEN 0 ELSE Len(ret.results))
            /\ \A k \in FailedIndexes(ret.results) :
                LET text == ErrorText(ret.results[k].error)
                IN  /\ fn # "compare_models" =>
                            /\ DOMAIN table[k]
                                   = {"model", "status", "aic", "bic", "parameters"}
                            /\ table[k].status = "Failed"
                            /\ table[k].aic = "N/A" /\ table[k].bic = "N/A"
                    /\ lines[k].status = "Failed"
                    /\ Len(lines[k].error) = Min(width, Len(text))
                    /\ \A c \in 1..Len(lines[k].error) : lines[k].error[c] = text[c]

C24_Witness ==
    /\ fn = "compare_sales_volume_sarima_models" /\ pc = "returned"
    /\ Len(ret.results) = 2
    /\ ~ret.results[1].success /\ ret.results[1].error = "FitError"
    /\ ~ret.results[2].success /\ ret.results[2].error = "ForecastError"
    /\ Len(ProgressLines(fn, ret.results)[1].error) = 60
    /\ Len(ProgressLines(fn, ret.results)[2].error) = 41
    /\ ComparisonTable(fn, ret.results)[1].status = "Failed"


----------------------------------------------------------------------------
(* Properties of the loaders *)

\* C25: load_data('auto') reads the real dataset exactly when its processed
\* file exists and the synthetic one otherwise; a dataset name outside
\* synthetic, real, sample, auto raises ValueError with no file read; a
\* dataset whose file is missing raises FileNotFoundError; rows with
\* Price < 30000 are dropped from real and sample data and never from
\* synthetic data.
C25_LoadData ==
    fn = "load_data" =>
        LET real == "data/processed/property_data_real.csv"
            synthetic == "data/processed/property_data_synthetic.csv"
            sample == "data/samples/property_data_real_sample.csv"
            wanted == CASE cur.arg = "real" -> real
                        [] cur.arg = "sample" -> sample
                        [] cur.arg = "synthetic" -> synthetic
                        [] cur.arg = "auto" ->
                              IF real \in cur.files THEN real ELSE synthetic
                        [] OTHER -> "none"
            kept == {k \in 1..Len(cur.contents) : cur.contents[k].Price >= 30000}
        IN  /\ cur.arg = "auto" =>
                (cur.dataset = "real" <=> real \in cur.files)
                    /\ (cur.dataset = "synthetic" <=> real \notin cur.files)
            /\ wanted = "none" <=> (pc = "raised" /\ ret = ValueError)
            /\ wanted = "none" => cur.reads = <<>>
            /\ (wanted # "none" /\ wanted \notin cur.files)
                    <=> (pc = "raised" /\ ret = FileNotFoundError)
            /\ pc = "returned" =>
                /\ cur.reads = <<wanted>>
                /\ IF wanted = synthetic
                   THEN ret.df = cur.contents
                   ELSE /\ Len(ret.df) = Cardinality(kept)
                        /\ \A k \in 1..Len(ret.df) : ret.df[k].Price >= 30000
                        /\ ret.df = SelectSeq(cur.contents,
                                              LAMBDA r : r.Price >= 30000)

C25_Witness ==
    /\ fn = "load_data" /\ pc = "returned"
    /\ cur.arg = "auto" /\ cur.dataset = "real"
    /\ Len(cur.contents) = 3 /\ Len(ret.df) = 2
    /\ ret.df[1].Price = 30000


----------------------------------------------------------------------------
(* Properties of the callers of the comparison *)

\* The candidates marked successful in the comparisons a script has made.
ScriptSuccesses ==
    IF fn = "fit_sarima_model_script"
    THEN IF cur.comparison = NoResult THEN {}
         ELSE {<<1, k>> : k \in {j \in 1..Len(cur.comparison.results) :
                                    cur.comparison.results[j].success}}
    ELSE AllSuccesses

\* C26: in fit_sarima_model.py and sarima_model_comparison.py the winner's
\* fields are read, and a forecast made from it, only when at least one
\* candidate succeeded; a search in which every candidate failed never ends
\* the script with a dereference of None (TypeError).
C26_WinnerReadOnlyAfterSuccess ==
    fn \in {"fit_sarima_model_script", "sarima_model_comparison"} =>
        /\ ret # TypeError
        /\ cur.winner_reads > 0 => ScriptSuccesses # {}
        /\ fn = "fit_sarima_model_script" =>
              (cur.forecasts > 0 => ScriptSuccesses # {})
        /\ fn = "sarima_model_comparison" =>
              cur.winner_reads <=
                  2 * Cardinality({k \in 1..Len(cur.all_results) :
                        \E j \in 1..Len(cur.all_results[k].results.results) :
                            cur.all_results[k].results.results[j].success})

C26_Witness ==
    /\ fn = "sarima_model_comparison" /\ pc = "returned"
    /\ Len(cur.all_results) = 2
    /\ cur.all_results[1].results.best_model = NoResult
    /\ cur.all_results[2].results.best_model # NoResult
    /\ cur.winner_reads = 2

C26_WitnessFitScript ==
    /\ fn = "fit_sarima_model_script" /\ pc = "returned"
    /\ cur.comparison # NoResult
    /\ cur.comparison.best_model = NoResult
    /\ cur.winner_reads = 0


\* C27: the outcomes list keeps the caller's order: the k-th outcome carries
\* the order and seasonal_order (and, for the sales-volume comparison, the
\* label) of the k-th candidate, whether it succeeded or failed, and a
\* returned list has one outcome per candidate.
C27_OutcomesInInputOrder ==
    IsComparison =>
        /\ Len(results) <= Len(model_configs)
        /\ \A k \in 1..Len(results) :
            /\ results[k].order = model_configs[k][1]
            /\ results[k].seasonal_order = model_configs[k][2]
            /\ fn = "compare_sales_volume_sarima_models" =>
                  results[k].label = model_configs[k][3]
        /\ pc = "returned" =>
            /\ ret.results = results
            /\ Len(results) = Len(model_configs)

C27_Witness ==
    /\ IsComparison /\ pc = "returned"
    /\ Len(ret.results) = 2
    /\ model_configs[1] # model_configs[2]
    /\ ~ret.results[1].success /\ ret.results[2].success
    /\ ret.results[1].order = model_configs[1][1]
    /\ ret.results[2].order # ret.results[1].order


\* The two shapes of an outcome.
SuccessShape(r) ==
    /\ r.success
    /\ r.model # NoResult
    /\ r.aic = r.model.aic /\ r.bic = r.model.bic
    /\ "error" \notin DOMAIN r

FailureShape(r) ==
    /\ ~r.success
    /\ r.model = NoResult
    /\ r.aic = Inf /\ r.bic = Inf
    /\ "error" \in DOMAIN r
    /\ r.error \in {"FitError", "ForecastError"}

\* C28: every outcome of a comparison has exactly one of two shapes: success
\* with a model and that model's AIC and BIC, or failure with no model, AIC
\* and BIC infinite and the error text recorded; the returned best model,
\* when there is one, is an outcome of the list with success true.
C28_TwoOutcomeShapes ==
    IsComparison =>
        /\ \A k \in 1..Len(results) :
              SuccessShape(results[k]) # FailureShape(results[k])
        /\ pc = "returned" =>
              \/ ret.best_model = NoResult
              \/ /\ ret.best_model.success
                 /\ \E k \in 1..Len(ret.results) : ret.results[k] = ret.best_model

C28_Witness ==
    /\ IsComparison /\ pc = "returned"
    /\ Len(ret.results) = 2
    /\ FailureShape(ret.results[1]) /\ SuccessShape(ret.results[2])
    /\ ret.best_model = ret.results[2]

C28_WitnessNoWinner ==
    /\ IsComparison /\ pc = "returned"
    /\ Len(ret.results) = 2
    /\ FailureShape(ret.results[1]) /\ FailureShape(ret.results[2])
    /\ ret.best_model = NoResult


----------------------------------------------------------------------------
(* Consistency of the weekly-versus-monthly inference *)

\* Dates one week apart, all Sundays.
WeeklySpaced(idx) ==
    \A k \in 1..Len(idx) :
        /\ IsSunday(idx[k])
        /\ k < Len(idx) => idx[k + 1] = idx[k] + 7

\* Consecutive month ends.
MonthEndSpaced(idx) ==
    \A k \in 1..Len(idx) :
        /\ idx[k] = MonthEnd(MonthOf(idx[k]))
        /\ k < Len(idx) => idx[k + 1] = MonthEnd(MonthOf(idx[k]) + 1)

\* C29: the seasonal period fit_sarima_model defaults to, the default
\* horizon and the spacing of the forecast dates of forecast_2025 and
\* forecast_with_confidence for a series' index, and the seasonal period
\* analyze_sarima_parameters recommends are each decided by the test
\* length > 100 (52 / weekly when it holds, 12 / month ends otherwise), so
\* they agree for series of the same length.
C29_FrequencyInferenceConsistent ==
    /\ \A k \in 1..Len(fitLog) :
          fitLog[k].seasonal_order = None =>
              fitLog[k].passed[4] = (IF fitLog[k].n > 100 THEN 52 ELSE 12)
    /\ (IsForecast /\ cur.ts_index # NoResult) =>
          /\ cur.steps_arg = StepsNone =>
                cur.steps = (IF cur.ts_index.n > 100 THEN 52 ELSE 12)
          /\ pc = "returned" =>
                LET dates == ret.forecast.index
                    ci == IF fn = "forecast_2025" THEN ret.forecast_ci.index
                          ELSE ret.confidence_intervals.index
                IN  /\ ci = dates
                    /\ IF cur.ts_index.n > 100
                       THEN WeeklySpaced(dates)
                       ELSE MonthEndSpaced(dates)
    /\ (fn = "analyze_sarima_parameters" /\ pc = "returned") =>
          /\ ret.s = (IF ts_len > 100 THEN 52 ELSE 12)
          /\ ret.frequency = (IF ts_len > 100 THEN "weekly" ELSE "monthly")

C29_Witness ==
    /\ fn = "forecast_2025" /\ pc = "returned"
    /\ cur.ts_index # NoResult
    /\ cur.ts_index.n = 101 /\ cur.steps_arg = StepsNone /\ cur.steps = 52
    /\ Len(ret.forecast.index) = 52
    /\ WeeklySpaced(ret.forecast.index) /\ ~MonthEndSpaced(ret.forecast.index)

C29_WitnessBoundary ==
    /\ fn = "analyze_sarima_parameters" /\ pc = "returned"
    /\ ts_len = 100 /\ ret.s = 12


\* The rows of year y's file that the price floor keeps.
KeptOfYear(y) ==
    Cardinality({k \in 1..Len(cur.files[y]) : cur.files[y][k].Price >= 30000})

\* C30: load_multi_year_data takes the years 2022, 2023, 2024 in that
\* order, skips a year whose raw file is missing, raises FileNotFoundError
\* exactly when no file exists, and otherwise returns a table whose row
\* count is the sum over the existing years of their rows with Price >= 30000.
C30_LoadMultiYearData ==
    fn = "load_multi_year_data" =>
        /\ (pc = "raised" /\ ret = FileNotFoundError) <=> cur.exists = {}
        /\ pc = "returned" <=> cur.exists # {}
        /\ {cur.loaded[k] : k \in 1..Len(cur.loaded)} = cur.exists
        /\ \A j, k \in 1..Len(cur.loaded) : j < k => cur.loaded[j] < cur.loaded[k]
        /\ pc = "returned" =>
            /\ Len(ret.df) =
                  (IF 2022 \in cur.exists THEN KeptOfYear(2022) ELSE 0)
                + (IF 2023 \in cur.exists THEN KeptOfYear(2023) ELSE 0)
                + (IF 2024 \in cur.exists THEN KeptOfYear(2024) ELSE 0)
            /\ \A k \in 1..Len(ret.df) :
                  ret.df[k].Price >= 30000 /\ ret.df[k].Year \in cur.exists
            /\ \A j, k \in 1..Len(ret.df) :
                  j < k => ret.df[j].Year <= ret.df[k].Year

C30_Witness ==
    /\ fn = "load_multi_year_data" /\ pc = "returned"
    /\ cur.exists = {2022, 2024}
    /\ Len(cur.files[2022]) = 2 /\ Len(cur.files[2024]) = 2
    /\ Len(ret.df) = 2
    /\ ret.df[1].Year = 2022 /\ ret.df[2].Year = 2024
    /\ ret.df[1].Price = 30000

C30_WitnessNoFile ==
    /\ fn = "load_multi_year_data" /\ pc = "raised"
    /\ cur.exists = {} /\ ret = FileNotFoundError

====
